---------------------------- MODULE Spec2Model ----------------------------
(***************************************************************************)
(* Model of the LoRa transceiver driver (src/driver/lora_driver.c).        *)
(*                                                                         *)
(* The driver is strictly synchronous: every public function is one        *)
(* action, but for the two that wait for the radio (lora_delay) in a loop. *)
(* lora_driver_init is DriverInit (the entry), InitWait (one pass of the   *)
(* version loop, once for every pass) and InitConfig (the test after the   *)
(* loop, the configuration accesses and the return).  lora_send_packet is  *)
(* SendPacket (the setup accesses), SendWait (one pass of the completion   *)
(* poll, once for every pass) and SendClose (the count of the lost packet, *)
(* the closing accesses and the return).  The transport adapter (spi_read, *)
(* spi_write, ...) is the environment: each call may fail, chosen through  *)
(* the set F of failing call numbers that every action draws with \E.  The *)
(* radio's register file is the variable regs; the radio itself raises IRQ *)
(* flags.                                                                  *)
(***************************************************************************)
EXTENDS Integers, Naturals, Sequences, FiniteSets, TLC

VARIABLES
    regs,              \* the radio's register file, as the transport sees it
    fifo,              \* the radio's FIFO memory, addressed by REG_FIFO_ADDR_PTR
    implicit,          \* static uint8_t __implicit
    send_packet_lost,  \* static uint8_t __send_packet_lost
    frequency,         \* static long __frequency
    timed_out,         \* history: the number of sends that timed out so far
    hist,              \* history (see Hist0): the packet the radio received
                       \* last and the size of the implicit header mode
    inited,            \* history: some lora_driver_init has returned LORA_OK
    mode_by,           \* history: the function that made the last successful
                       \* write of REG_OP_MODE
    call,              \* the call of lora_driver_init or lora_send_packet
                       \* that is under way (see NoCall): its arguments, its
                       \* locals and how far it has got
    obs                \* history: the call that has just returned (see Obs),
                       \* until the caller has taken note of it (Observe)

vars ==
    <<regs, fifo, implicit, send_packet_lost, frequency, timed_out, hist,
      inited, mode_by, call, obs>>

----------------------------------------------------------------------------
(* Bounds of the model.                                                    *)

\* a transport failure pattern fails at most MaxFails calls of one operation
MaxFails == 2
\* timed-out sends are followed up to this value of the lost-packet counter
\* in SpecPoll; SpecLost follows the counter through the end of its 8-bit
\* range
MaxLost == 2
\* SpecLost follows the timed-out sends from LostStart of them up to
\* MaxTimedOut
LostStart == 254
MaxTimedOut == 257
\* size of the modelled FIFO memory (the chip has 256 bytes)
FifoSize == 4
\* length of the caller's receive buffer
BufCap == 3

----------------------------------------------------------------------------
(* lora_status_t                                                           *)

LORA_OK                    == 0
LORA_FAIL                  == 1
LORA_FAILED_INIT           == 2
LORA_FAILED_SPI_WRITE      == 3
LORA_FAILED_SPI_WRITE_BUF  == 4
LORA_FAILED_SPI_READ       == 5
LORA_FAILED_SPI_READ_BUF   == 6
LORA_FAILED_SEND_PACKET    == 7
LORA_FAILED_RECEIVE_PACKET == 8
LORA_DELAY_FAIL            == 9
LORA_CRC_ERROR             == 10

(* Register addresses *)
REG_FIFO                 == 0
REG_OP_MODE              == 1
REG_FRF_MSB              == 6
REG_FRF_MID              == 7
REG_FRF_LSB              == 8
REG_LNA                  == 12
REG_FIFO_ADDR_PTR        == 13
REG_FIFO_TX_BASE_ADDR    == 14
REG_FIFO_RX_BASE_ADDR    == 15
REG_FIFO_RX_CURRENT_ADDR == 16
REG_IRQ_FLAGS            == 18
REG_RX_NB_BYTES          == 19
REG_PKT_RSSI_VALUE       == 26
REG_MODEM_CONFIG_1       == 29
REG_MODEM_CONFIG_2       == 30
REG_PAYLOAD_LENGTH       == 34
REG_MODEM_CONFIG_3       == 38
REG_DETECTION_OPTIMIZE   == 49
REG_DETECTION_THRESHOLD  == 55
REG_DIO_MAPPING_1        == 64
REG_DIO_MAPPING_2        == 65
REG_VERSION              == 66

(* Transceiver modes *)
MODE_LONG_RANGE_MODE == 128
MODE_SLEEP           == 0
MODE_STDBY           == 1
MODE_TX              == 3
MODE_RX_CONTINUOUS   == 5

(* IRQ masks *)
IRQ_TX_DONE_MASK           == 8
IRQ_PAYLOAD_CRC_ERROR_MASK == 32
IRQ_RX_DONE_MASK           == 64
IRQ_PAYLOAD_CRC_ERROR      == 32

TIMEOUT_RESET == 100
\* the bound of send's completion poll: if (65535 == loop) break;
POLL_BOUND == 65535
\* the version byte lora_driver_init waits for (0x12)
CHIP_VERSION == 18
\* the 8-bit width of uint8_t
BYTE_MOD == 256
\* the 16-bit width of uint16_t
WORD_MOD == 65536
\* the crystal frequency lora_set_frequency divides by
FXOSC == 32000000
\* the frequency from which lora_packet_rssi takes the high-band offset
HF_BAND == 868000000
\* the offsets lora_packet_rssi subtracts below HF_BAND and from it on
RSSI_OFFSET_LF == 164
RSSI_OFFSET_HF == 157

\* the values of a uint8_t
Byte == 0 .. (BYTE_MOD - 1)


----------------------------------------------------------------------------
(* C's bitwise operators on 8-bit values.                                  *)

RECURSIVE BitAndN(_, _, _)
BitAndN(a, b, n) ==
    IF n = 0 THEN 0
    ELSE (a % 2) * (b % 2) + 2 * BitAndN(a \div 2, b \div 2, n - 1)

\* a & b
BitAnd(a, b) == BitAndN(a, b, 8)

\* a | b
BitOr(a, b) == a + b - BitAnd(a, b)

\* a & ~b on 8 bits
BitClear(a, b) == a - BitAnd(a, b)

Max(a, b) == IF a >= b THEN a ELSE b

\* a << n and a >> n on int
Shl(a, n) == a * 2 ^ n
Shr(a, n) == a \div 2 ^ n

\* the conversion of an int to uint8_t
U8(x) == x % BYTE_MOD


----------------------------------------------------------------------------
(* The radio behind the transport adapter.  The adapter's implementation   *)
(* is outside the repository; the register semantics are those the         *)
(* driver relies on: plain registers, an IRQ-flags register that is        *)
(* cleared by writing ones, a FIFO reached through REG_FIFO at the         *)
(* address held by REG_FIFO_ADDR_PTR, which moves on with every byte and   *)
(* wraps at the end of the FIFO.                                           *)

Regs == { REG_OP_MODE, REG_FRF_MSB, REG_FRF_MID, REG_FRF_LSB, REG_LNA,
          REG_FIFO_ADDR_PTR, REG_FIFO_TX_BASE_ADDR, REG_FIFO_RX_BASE_ADDR,
          REG_FIFO_RX_CURRENT_ADDR, REG_IRQ_FLAGS, REG_RX_NB_BYTES,
          REG_PKT_RSSI_VALUE, REG_MODEM_CONFIG_1, REG_MODEM_CONFIG_2,
          REG_PAYLOAD_LENGTH, REG_MODEM_CONFIG_3, REG_DETECTION_OPTIMIZE,
          REG_DETECTION_THRESHOLD, REG_DIO_MAPPING_1, REG_DIO_MAPPING_2 }

\* the FIFO cell an 8-bit FIFO address selects
FifoCell(addr) == addr % FifoSize

\* the effect of a completed single-byte register write on the radio
HwWrite(r, reg, val) ==
    IF reg = REG_IRQ_FLAGS
    THEN [r EXCEPT ![reg] = BitClear(@, val)]
    ELSE IF reg = REG_FIFO_ADDR_PTR
    THEN [r EXCEPT ![reg] = FifoCell(val)]
    ELSE [r EXCEPT ![reg] = val]

\* the effect of a completed buffered write of data through REG_FIFO
HwFifoWrite(r, f, data) ==
    [ regs |-> [r EXCEPT ![REG_FIFO_ADDR_PTR] = FifoCell(@ + Len(data))],
      fifo |-> [c \in DOMAIN f |->
                  IF \E i \in 1 .. Len(data) :
                        FifoCell(r[REG_FIFO_ADDR_PTR] + i - 1) = c
                  THEN data[CHOOSE i \in 1 .. Len(data) :
                        /\ FifoCell(r[REG_FIFO_ADDR_PTR] + i - 1) = c
                        /\ \A j \in (i + 1) .. Len(data) :
                              FifoCell(r[REG_FIFO_ADDR_PTR] + j - 1) # c]
                  ELSE f[c]] ]

\* the bytes a completed buffered read of len bytes through REG_FIFO returns
HwFifoRead(r, f, len) ==
    [i \in 1 .. len |-> f[FifoCell(r[REG_FIFO_ADDR_PTR] + i - 1)]]

(* One operation's view of the world: the radio, the transport calls made  *)
(* so far (calls) and their number (n).  Call number i fails iff i \in F.  *)

World0(r, f) == [regs |-> r, fifo |-> f, calls |-> <<>>, n |-> 0]

CallOk(w, F) == (w.n + 1) \notin F

Logged(w, k, reg, val, ok) ==
    [w EXCEPT !.calls = Append(@, [k |-> k, reg |-> reg, val |-> val, ok |-> ok]),
              !.n = @ + 1]

\* api_status_t spi_write(uint8_t reg, uint8_t val)
spi_write(w, F, reg, val) ==
    LET ok == CallOk(w, F)
        w1 == IF ok THEN [w EXCEPT !.regs = HwWrite(w.regs, reg, val)] ELSE w
    IN  [w |-> Logged(w1, "write", reg, val, ok), ok |-> ok]

\* api_status_t spi_write_buf(uint8_t reg, uint8_t *val, uint16_t len)
spi_write_buf(w, F, reg, data) ==
    LET ok == CallOk(w, F)
        hw == HwFifoWrite(w.regs, w.fifo, data)
        w1 == IF ok THEN [w EXCEPT !.regs = hw.regs, !.fifo = hw.fifo] ELSE w
    IN  [w |-> Logged(w1, "write_buf", reg, Len(data), ok), ok |-> ok]

\* api_status_t spi_read(uint8_t reg, uint8_t *val): a failed read leaves
\* *val as it was (old)
spi_read(w, F, reg, old) ==
    LET ok == CallOk(w, F)
        v  == IF ok THEN w.regs[reg] ELSE old
    IN  [w |-> Logged(w, "read", reg, v, ok), ok |-> ok, val |-> v]

\* api_status_t spi_read_buf(uint8_t reg, uint8_t *val, uint16_t len): a
\* failed read leaves the destination (old) as it was
spi_read_buf(w, F, reg, old, len) ==
    LET ok   == CallOk(w, F)
        data == HwFifoRead(w.regs, w.fifo, len)
        new  == [i \in 1 .. Len(old) |-> IF i <= len THEN data[i] ELSE old[i]]
        w1   == IF ok
                THEN [w EXCEPT !.regs[REG_FIFO_ADDR_PTR] = FifoCell(@ + len)]
                ELSE w
    IN  [w |-> Logged(w1, "read_buf", reg, len, ok), ok |-> ok,
         val |-> IF ok THEN new ELSE old]

----------------------------------------------------------------------------
(* Register access of the driver.                                          *)

lora_write_reg(w, F, reg, val) ==
    LET s == spi_write(w, F, reg, val)
    IN  [w |-> s.w, ret |-> IF s.ok THEN LORA_OK ELSE LORA_FAILED_SPI_WRITE]

lora_write_reg_buffer(w, F, reg, data) ==
    LET s == spi_write_buf(w, F, reg, data)
    IN  [w |-> s.w, ret |-> IF s.ok THEN LORA_OK ELSE LORA_FAILED_SPI_WRITE_BUF]

lora_read_reg(w, F, reg, old) ==
    LET s == spi_read(w, F, reg, old)
    IN  [w |-> s.w, ret |-> IF s.ok THEN LORA_OK ELSE LORA_FAILED_SPI_READ,
         val |-> s.val]

lora_read_reg_buffer(w, F, reg, old, len) ==
    LET s == spi_read_buf(w, F, reg, old, len)
    IN  [w |-> s.w, ret |-> IF s.ok THEN LORA_OK ELSE LORA_FAILED_SPI_READ_BUF,
         val |-> s.val]

(* Mode controller *)

OpSleep   == BitOr(MODE_LONG_RANGE_MODE, MODE_SLEEP)
OpStandby == BitOr(MODE_LONG_RANGE_MODE, MODE_STDBY)
OpTx      == BitOr(MODE_LONG_RANGE_MODE, MODE_TX)
OpRxCont  == BitOr(MODE_LONG_RANGE_MODE, MODE_RX_CONTINUOUS)

lora_idle_mode(w, F)    == lora_write_reg(w, F, REG_OP_MODE, OpStandby)
lora_sleep_mode(w, F)   == lora_write_reg(w, F, REG_OP_MODE, OpSleep)
lora_receive_mode(w, F) == lora_write_reg(w, F, REG_OP_MODE, OpRxCont)

----------------------------------------------------------------------------
(* Header mode *)

\* lora_explicit_header_mode: reg_val is not used when the read fails
lora_explicit_header_mode(w, F) ==
    LET r1 == lora_read_reg(w, F, REG_MODEM_CONFIG_1, 0)
    IN  IF r1.ret # LORA_OK
        THEN [w |-> r1.w, ret |-> LORA_FAIL]
        ELSE lora_write_reg(r1.w, F, REG_MODEM_CONFIG_1, BitAnd(r1.val, 254))

\* lora_implicit_header_mode(size); jreg is the content of the
\* uninitialised local reg_val, which is what is written when the read fails
lora_implicit_header_mode(w, F, size, jreg) ==
    LET r1 == lora_read_reg(w, F, REG_MODEM_CONFIG_1, jreg)
        r2 == lora_write_reg(r1.w, F, REG_MODEM_CONFIG_1, BitOr(r1.val, 1))
        r3 == lora_write_reg(r2.w, F, REG_PAYLOAD_LENGTH, size)
    IN  [w |-> r3.w, ret |-> r1.ret + r2.ret + r3.ret]

----------------------------------------------------------------------------
(* Radio configuration *)

\* uint64_t frf = ((uint64_t)frequency << 19) / 32000000, for frequency >= 0.
\* The product does not fit the integers of the model checker, so the
\* division is made on the quotient and remainder of f by
\* FXOSC / 2^11 = 15625, which gives the same value:
\* (f * 2^19) \div (2^11 * 15625) = (f * 2^8) \div 15625.
FrfOf(f) ==
    LET d == Shr(FXOSC, 11)
    IN  (f \div d) * Shl(1, 8) + ((f % d) * Shl(1, 8)) \div d

\* lora_set_frequency: the three bytes of frf, most significant first
lora_set_frequency(w, F, f) ==
    LET frf == FrfOf(f)
        r1  == lora_write_reg(w, F, REG_FRF_MSB, U8(Shr(frf, 16)))
        r2  == lora_write_reg(r1.w, F, REG_FRF_MID, U8(Shr(frf, 8)))
        r3  == lora_write_reg(r2.w, F, REG_FRF_LSB, U8(Shr(frf, 0)))
    IN  [w |-> r3.w, ret |-> r1.ret + r2.ret + r3.ret, frequency |-> f]

\* sf taken as it is
SfUnclamped(sf) == sf

\* if (sf < 6) sf = 6; else if (sf > 12) sf = 12;
ClampSf(sf) == IF sf < 6 THEN 6 ELSE IF sf > 12 THEN 12 ELSE sf

\* lora_set_spreading_factor; jreg is the content of the uninitialised
\* local reg_val
lora_set_spreading_factor(w, F, sf, jreg) ==
    LET c  == ClampSf(sf)
        r1 == lora_write_reg(w, F, REG_DETECTION_OPTIMIZE,
                             IF c = 6 THEN 197 ELSE 195)
        r2 == lora_write_reg(r1.w, F, REG_DETECTION_THRESHOLD,
                             IF c = 6 THEN 12 ELSE 10)
        r3 == lora_read_reg(r2.w, F, REG_MODEM_CONFIG_2, jreg)
        r4 == lora_write_reg(r3.w, F, REG_MODEM_CONFIG_2,
                  BitOr(BitAnd(r3.val, 15), BitAnd(Shl(c, 4), 240)))
    IN  [w |-> r4.w, ret |-> r1.ret + r2.ret + r3.ret + r4.ret]

\* lora_get_spreading_factor; old is the caller's *sf before the call
lora_get_spreading_factor(w, F, old) ==
    LET r1 == lora_read_reg(w, F, REG_MODEM_CONFIG_2, 0)
    IN  IF r1.ret # LORA_OK
        THEN [w |-> r1.w, ret |-> LORA_FAIL, val |-> old]
        ELSE [w |-> r1.w, ret |-> LORA_OK, val |-> Shr(r1.val, 4)]

\* the mask that clears the field of pin dio and the shift that places a
\* mode in it: pins 0 .. 3 in REG_DIO_MAPPING_1, 4 and 5 in REG_DIO_MAPPING_2
DioMask(dio) ==
    IF dio \in {0, 4} THEN 63 ELSE IF dio \in {1, 5} THEN 207
    ELSE IF dio = 2 THEN 243 ELSE 252
DioShift(dio) ==
    IF dio \in {0, 4} THEN 6 ELSE IF dio \in {1, 5} THEN 4
    ELSE IF dio = 2 THEN 2 ELSE 0

\* lora_set_dio_mapping.  For the pins 4 and 5 the register is read into
\* the parameter mode and the local _mode keeps its initial 0.
lora_set_dio_mapping(w, F, dio, mode) ==
    IF dio < 4
    THEN LET r1 == lora_read_reg(w, F, REG_DIO_MAPPING_1, 0)
             m  == U8(BitOr(BitAnd(r1.val, DioMask(dio)),
                            Shl(mode, DioShift(dio))))
             r2 == lora_write_reg(r1.w, F, REG_DIO_MAPPING_1, m)
         IN  IF r1.ret # LORA_OK
             THEN [w |-> r1.w, ret |-> r1.ret]
             ELSE [w |-> r2.w, ret |-> r1.ret + r2.ret]
    ELSE IF dio < 6
    THEN LET r1 == lora_read_reg(w, F, REG_DIO_MAPPING_2, mode)
             m  == U8(BitOr(BitAnd(0, DioMask(dio)),
                            Shl(r1.val, DioShift(dio))))
             r2 == lora_write_reg(r1.w, F, REG_DIO_MAPPING_2, m)
         IN  [w |-> r2.w, ret |-> r1.ret + r2.ret]
    ELSE [w |-> w, ret |-> LORA_FAIL]

\* lora_get_dio_mapping; old is the caller's *mapping before the call
lora_get_dio_mapping(w, F, dio, old) ==
    IF dio < 6
    THEN LET r1 == lora_read_reg(w, F,
                       IF dio < 4 THEN REG_DIO_MAPPING_1
                       ELSE REG_DIO_MAPPING_2, 0)
         IN  IF r1.ret # LORA_OK
             THEN [w |-> r1.w, ret |-> r1.ret, val |-> old]
             ELSE [w |-> r1.w, ret |-> LORA_OK,
                   val |-> BitAnd(Shr(r1.val, DioShift(dio)), 3)]
    ELSE [w |-> w, ret |-> LORA_FAIL, val |-> old]

\* lora_set_bandwidth with sbw clamped to 9 and never refused
SetBandwidthClamped(w, F, sbw) ==
    LET r1 == lora_read_reg(w, F, REG_MODEM_CONFIG_1, 0)
        r2 == lora_write_reg(r1.w, F, REG_MODEM_CONFIG_1,
                  U8(BitOr(BitAnd(r1.val, 15), Shl(IF sbw < 10 THEN sbw ELSE 9, 4))))
    IN  IF r1.ret # LORA_OK THEN [w |-> r1.w, ret |-> LORA_FAIL] ELSE r2

\* lora_set_bandwidth
lora_set_bandwidth(w, F, sbw) ==
    LET r1 == lora_read_reg(w, F, REG_MODEM_CONFIG_1, 0)
        r2 == lora_write_reg(r1.w, F, REG_MODEM_CONFIG_1,
                  U8(BitOr(BitAnd(r1.val, 15), Shl(sbw, 4))))
    IN  IF r1.ret # LORA_OK THEN [w |-> r1.w, ret |-> LORA_FAIL]
        ELSE IF sbw < 10 THEN r2
        ELSE [w |-> r1.w, ret |-> LORA_FAIL]

\* lora_get_bandwidth; old is the caller's *sbw before the call
lora_get_bandwidth(w, F, old) ==
    LET r1 == lora_read_reg(w, F, REG_MODEM_CONFIG_1, 0)
    IN  IF r1.ret # LORA_OK
        THEN [w |-> r1.w, ret |-> LORA_FAIL, val |-> old]
        ELSE [w |-> r1.w, ret |-> LORA_OK,
              val |-> Shr(BitAnd(r1.val, 240), 4)]

\* if (denominator < 5) denominator = 5; else if (denominator > 8) ... = 8;
ClampCr(d) == IF d < 5 THEN 5 ELSE IF d > 8 THEN 8 ELSE d

\* lora_set_coding_rate with the mask 0xf0, which clears the header bit too
SetCodingRateWideMask(w, F, denominator) ==
    LET r1 == lora_read_reg(w, F, REG_MODEM_CONFIG_1, 0)
        cr == U8(ClampCr(denominator) - 4)
    IN  IF r1.ret # LORA_OK THEN [w |-> r1.w, ret |-> LORA_FAIL]
        ELSE lora_write_reg(r1.w, F, REG_MODEM_CONFIG_1,
                 U8(BitOr(BitAnd(r1.val, 240), Shl(cr, 1))))

\* lora_set_coding_rate
lora_set_coding_rate(w, F, denominator) ==
    LET r1 == lora_read_reg(w, F, REG_MODEM_CONFIG_1, 0)
        cr == U8(ClampCr(denominator) - 4)
    IN  IF r1.ret # LORA_OK THEN [w |-> r1.w, ret |-> LORA_FAIL]
        ELSE lora_write_reg(r1.w, F, REG_MODEM_CONFIG_1,
                 U8(BitOr(BitAnd(r1.val, 241), Shl(cr, 1))))

\* lora_get_coding_rate; old is the caller's *cr before the call
lora_get_coding_rate(w, F, old) ==
    LET r1 == lora_read_reg(w, F, REG_MODEM_CONFIG_1, 0)
    IN  IF r1.ret # LORA_OK
        THEN [w |-> r1.w, ret |-> LORA_FAIL, val |-> old]
        ELSE [w |-> r1.w, ret |-> LORA_OK,
              val |-> Shr(BitAnd(r1.val, 14), 1)]

\* lora_enable_crc
lora_enable_crc(w, F) ==
    LET r1 == lora_read_reg(w, F, REG_MODEM_CONFIG_2, 0)
    IN  IF r1.ret # LORA_OK THEN [w |-> r1.w, ret |-> LORA_FAIL]
        ELSE lora_write_reg(r1.w, F, REG_MODEM_CONFIG_2, BitOr(r1.val, 4))

\* lora_disable_crc
lora_disable_crc(w, F) ==
    LET r1 == lora_read_reg(w, F, REG_MODEM_CONFIG_2, 0)
    IN  IF r1.ret # LORA_OK THEN [w |-> r1.w, ret |-> LORA_FAIL]
        ELSE lora_write_reg(r1.w, F, REG_MODEM_CONFIG_2, BitAnd(r1.val, 251))

\* reg_val - (__frequency < 868E6 ? 164 : 157), an int
RssiValue(reg_val, freq) ==
    reg_val - (IF freq < HF_BAND THEN RSSI_OFFSET_LF ELSE RSSI_OFFSET_HF)

\* lora_packet_rssi(uint8_t *rssi): the int is stored in a uint8_t; old is
\* the caller's *rssi before the call
lora_packet_rssi(w, F, freq, old) ==
    LET r1 == lora_read_reg(w, F, REG_PKT_RSSI_VALUE, 0)
    IN  IF r1.ret # LORA_OK
        THEN [w |-> r1.w, ret |-> LORA_FAIL, val |-> old]
        ELSE [w |-> r1.w, ret |-> LORA_OK,
              val |-> U8(RssiValue(r1.val, freq))]

\* uint8_t lora_packet_lost(void)
lora_packet_lost(lost) == lost

----------------------------------------------------------------------------
(* lora_driver_init *)

\* what the local `version` holds after the j-th read of REG_VERSION: the
\* radio answers CHIP_VERSION from its k-th read on and 0 before; the reads
\* 1 .. vfu fail and leave the uninitialised local at jv
VersionSeen(j, k, vfu, jv) ==
    IF j <= vfu THEN jv ELSE IF j >= k THEN CHIP_VERSION ELSE 0

\* the version loop as it starts: uint8_t i = 0, no read and no delay made
InitLoop0 == [i |-> 0, reads |-> 0, delays |-> 0, done |-> FALSE]

\* One pass of  while (i++ < TIMEOUT_RESET) { read; if (0x12 == version)
\* break; delay; }  from the loop state s: the test with its increment of the
\* uint8_t i, then the read, the comparison and the delay.  A loop that has
\* ended (s.done) stays as it is.
InitStep(s, k, vfu, jv) ==
    IF s.done THEN s
    ELSE IF ~(s.i < TIMEOUT_RESET)
    THEN [s EXCEPT !.i = (@ + 1) % BYTE_MOD, !.done = TRUE]
    ELSE IF VersionSeen(s.reads + 1, k, vfu, jv) = CHIP_VERSION
    THEN [s EXCEPT !.i = (@ + 1) % BYTE_MOD, !.reads = @ + 1, !.done = TRUE]
    ELSE [s EXCEPT !.i = (@ + 1) % BYTE_MOD, !.reads = @ + 1, !.delays = @ + 1]

\* a test one short: TIMEOUT_RESET == i
InitTimedOutEarly(i) == (i = TIMEOUT_RESET)

\* the test after the loop: if (TIMEOUT_RESET + 1 == i) return LORA_FAILED_INIT
InitTimedOut(i) == (i = TIMEOUT_RESET + 1)

\* lora_driver_init after its version loop, which ended with the counter at
\* i: the test and the seven configuration accesses (lines 444-457); jl is
\* the content of the uninitialised local lna_val
InitSetup(w, F, i, jl) ==
    LET r1 == lora_sleep_mode(w, F)
        r2 == lora_write_reg(r1.w, F, REG_FIFO_RX_BASE_ADDR, 0)
        r3 == lora_write_reg(r2.w, F, REG_FIFO_TX_BASE_ADDR, 0)
        r4 == lora_read_reg(r3.w, F, REG_LNA, jl)
        r5 == lora_write_reg(r4.w, F, REG_LNA, BitOr(r4.val, 3))
        r6 == lora_write_reg(r5.w, F, REG_MODEM_CONFIG_3, 4)
        r7 == lora_idle_mode(r6.w, F)
    IN  IF InitTimedOut(i)
        THEN [w |-> w, ret |-> LORA_FAILED_INIT, seen |-> FALSE]
        ELSE [w |-> r7.w,
              ret |-> r1.ret + r2.ret + r3.ret + r5.ret + r6.ret + r7.ret,
              seen |-> TRUE]

----------------------------------------------------------------------------
(* lora_send_packet *)

HasTxDone(v) == BitAnd(v, IRQ_TX_DONE_MASK) = IRQ_TX_DONE_MASK

\* the completion poll as it starts: uint16_t loop = 0; uint8_t tmp = 0
\* (lines 479-480), no read and no delay made
SendLoop0 ==
    [loop |-> 0, tmp |-> 0, polls |-> 0, delays |-> 0, seen |-> FALSE,
     done |-> FALSE]

\* the radio's registers at the poll read number j: the radio holds TX-done
\* from the read number t on
TxRaised(r, j, t) ==
    IF j >= t
    THEN [r EXCEPT ![REG_IRQ_FLAGS] = BitOr(@, IRQ_TX_DONE_MASK)]
    ELSE r

\* a pass with the bound tested before the flag: TX-done at the 65535th
\* read is not seen
SendPollBoundFirst(s, r, t, fu) ==
    LET j    == s.polls + 1
        r1   == TxRaised(r, j, t)
        tmp  == IF j > fu THEN r1[REG_IRQ_FLAGS] ELSE s.tmp
        loop == (s.loop + 1) % WORD_MOD
        s1   == [s EXCEPT !.polls = j, !.tmp = tmp]
    IN  IF loop = POLL_BOUND
        THEN [s |-> [s1 EXCEPT !.loop = loop, !.done = TRUE], regs |-> r1]
        ELSE IF HasTxDone(tmp)
        THEN [s |-> [s1 EXCEPT !.seen = TRUE, !.done = TRUE], regs |-> r1]
        ELSE [s |-> [s1 EXCEPT !.loop = loop, !.delays = @ + 1], regs |-> r1]

(* One pass of the completion poll, lines 484-497:                         *)
(*   while (1) { read REG_IRQ_FLAGS into tmp; if (tmp has TX-done) break;  *)
(*               loop++; if (65535 == loop) break; delay; }                *)
(* from the loop state s and the registers r: the read, the test of the    *)
(* flag, the increment of the uint16_t loop, the test of the bound and the *)
(* delay.  The radio holds TX-done from the read number t on; the reads    *)
(* 1 .. fu fail and leave tmp as it was.                                   *)
SendPoll(s, r, t, fu) ==
    LET j    == s.polls + 1
        r1   == TxRaised(r, j, t)
        tmp  == IF j > fu THEN r1[REG_IRQ_FLAGS] ELSE s.tmp
        loop == (s.loop + 1) % WORD_MOD
        s1   == [s EXCEPT !.polls = j, !.tmp = tmp]
    IN  IF HasTxDone(tmp)
        THEN [s |-> [s1 EXCEPT !.seen = TRUE, !.done = TRUE], regs |-> r1]
        ELSE IF loop = POLL_BOUND
        THEN [s |-> [s1 EXCEPT !.loop = loop, !.done = TRUE], regs |-> r1]
        ELSE [s |-> [s1 EXCEPT !.loop = loop, !.delays = @ + 1], regs |-> r1]

\* the test after the poll: if (65535 == loop) __send_packet_lost++
SendLost(loop, lost) ==
    IF loop = POLL_BOUND THEN (lost + 1) % BYTE_MOD ELSE lost

\* the five setup accesses, the status of the last one alone
SendSetupLast(w, F, data) ==
    LET r1 == lora_idle_mode(w, F)
        r2 == lora_write_reg(r1.w, F, REG_FIFO_ADDR_PTR, 0)
        r3 == lora_write_reg_buffer(r2.w, F, REG_FIFO, data)
        r4 == lora_write_reg(r3.w, F, REG_PAYLOAD_LENGTH, Len(data))
        r5 == lora_write_reg(r4.w, F, REG_OP_MODE, OpTx)
    IN  [w |-> r5.w, ret |-> r5.ret]

\* the five setup accesses, their statuses added up
SendSetup(w, F, data) ==
    LET r1 == lora_idle_mode(w, F)
        r2 == lora_write_reg(r1.w, F, REG_FIFO_ADDR_PTR, 0)
        r3 == lora_write_reg_buffer(r2.w, F, REG_FIFO, data)
        r4 == lora_write_reg(r3.w, F, REG_PAYLOAD_LENGTH, Len(data))
        r5 == lora_write_reg(r4.w, F, REG_OP_MODE, OpTx)
    IN  [w |-> r5.w, ret |-> r1.ret + r2.ret + r3.ret + r4.ret + r5.ret]

\* the closing accesses: lora_sleep_mode(); return lora_write_reg(IRQ, TX-done)
SendFinish(w, F) ==
    LET r1 == lora_sleep_mode(w, F)
    IN  lora_write_reg(r1.w, F, REG_IRQ_FLAGS, IRQ_TX_DONE_MASK)

----------------------------------------------------------------------------
(* lora_receive_packet and lora_received *)

\* no test of the RX-done bit
RxDoneUnchecked(v) == TRUE

\* irq & IRQ_RX_DONE_MASK
HasRxDone(v) == BitAnd(v, IRQ_RX_DONE_MASK) # 0

\* irq & IRQ_PAYLOAD_CRC_ERROR_MASK
HasCrcError(v) == BitAnd(v, IRQ_PAYLOAD_CRC_ERROR_MASK) # 0

\* the status returned when the RX-done bit is absent (line 519)
ReceiveNothingStatus == LORA_FAIL
\* the status returned when the payload-CRC-error bit is present (line 521)
ReceiveCrcStatus == LORA_FAIL

\* if (len > size) len = size;
ClampLen(len, size) == IF len > size THEN size ELSE len

\* b, rl: the caller's buffer and *return_len before the call; size: the
\* capacity passed; impl: __implicit; jirq, jreg: the contents of the
\* uninitialised locals irq and reg_val
lora_receive_packet(w, F, b, rl, size, impl, jirq, jreg) ==
    LET r1  == lora_read_reg(w, F, REG_IRQ_FLAGS, jirq)
        r2  == lora_write_reg(r1.w, F, REG_IRQ_FLAGS, r1.val)
        irq == r1.val
        r3  == lora_read_reg(r2.w, F,
                   IF impl # 0 THEN REG_PAYLOAD_LENGTH ELSE REG_RX_NB_BYTES, 0)
        r4  == lora_idle_mode(r3.w, F)
        r5  == lora_read_reg(r4.w, F, REG_FIFO_RX_CURRENT_ADDR, jreg)
        r6  == lora_write_reg(r5.w, F, REG_FIFO_ADDR_PTR, r5.val)
        len == ClampLen(r3.val, size)
        r7  == lora_read_reg_buffer(r6.w, F, REG_FIFO, b, len)
    IN  IF ~HasRxDone(irq)
        THEN [w |-> r2.w, ret |-> ReceiveNothingStatus, irq |-> irq,
              buf |-> b, return_len |-> rl]
        ELSE IF HasCrcError(irq)
        THEN [w |-> r2.w, ret |-> ReceiveCrcStatus, irq |-> irq,
              buf |-> b, return_len |-> rl]
        ELSE [w |-> r7.w, ret |-> LORA_OK, irq |-> irq,
              buf |-> r7.val, return_len |-> len]

\* the flags read, written back whole (as lora_receive_packet does)
ReceivedClearAll(reg_val) == reg_val

\* the value lora_received writes to REG_IRQ_FLAGS when it finds RX-done
\* and the CRC error (line 560)
ReceivedClearMask(reg_val) == IRQ_PAYLOAD_CRC_ERROR_MASK

\* rcv, crc: the caller's *received and *crc_error before the call
lora_received(w, F, rcv, crc) ==
    LET r1 == lora_read_reg(w, F, REG_IRQ_FLAGS, 0)
        v  == r1.val
        r2 == lora_write_reg(r1.w, F, REG_IRQ_FLAGS, ReceivedClearMask(v))
    IN  IF r1.ret # LORA_OK
        THEN [w |-> r1.w, ret |-> LORA_FAIL, irq |-> v,
              received |-> rcv, crc_error |-> crc]
        ELSE IF HasRxDone(v)
        THEN IF BitAnd(v, IRQ_PAYLOAD_CRC_ERROR) # 0
             THEN [w |-> r2.w, ret |-> LORA_OK, irq |-> v,
                   received |-> TRUE, crc_error |-> TRUE]
             ELSE [w |-> r1.w, ret |-> LORA_OK, irq |-> v,
                   received |-> TRUE, crc_error |-> FALSE]
        ELSE [w |-> r1.w, ret |-> LORA_OK, irq |-> v,
              received |-> FALSE, crc_error |-> crc]

----------------------------------------------------------------------------
(* Inputs of the actions.                                                  *)

\* the patterns of failing transport calls of an operation that makes n
\* calls: at most m of them fail
FailSets(n, m) == {F \in SUBSET (1 .. n) : Cardinality(F) <= m}

\* the patterns of FS in which none of the calls cs fails
Sparing(FS, cs) == {F \in FS : F \cap cs = {}}

\* the read of REG_VERSION from which the radio answers 0x12 (the last: never)
VersionAt == 1 .. (TIMEOUT_RESET + 1)
\* how many leading reads of REG_VERSION fail
VersionFailUntil == {0, 1}
\* the poll of lora_send_packet: the read of REG_IRQ_FLAGS from which the
\* radio holds TX-done (t; the last: never), the leading reads that fail
\* (fu).  ShortPolls: the radio answers early; LongPolls: it answers at the
\* last read the poll makes or never, or every read fails.
ShortPolls == [t : {1, 5}, fu : {0}] \cup [t : {1}, fu : {2}]
LongPolls ==
    [t : {POLL_BOUND, POLL_BOUND + 1}, fu : {0}]
        \cup [t : {1}, fu : {POLL_BOUND}]
PollCases == ShortPolls \cup LongPolls
\* contents of an uninitialised byte: whatever the stack holds
Junk == Byte
\* what an uninitialised local can hold after the read into it: anything
\* when the read failed; the read's value, for which 0 stands in, when not
JunkIf(failed) == IF failed THEN Junk ELSE {0}
\* contents of the uninitialised local version of lora_driver_init, which
\* is only compared with 0x12 and never written: 0x12, and 0 for every
\* other byte
JunkVersion == {0, CHIP_VERSION}
\* payloads passed to lora_send_packet
SendBufs == {<<>>, <<17, 34>>}
\* packets the radio receives
RxPkts == {<<161>>, <<177, 178, 179, 180>>}
\* FIFO addresses the radio stores a received packet at
RxAddrs == {1}
\* capacities passed to lora_receive_packet
RxSizes == {0, 2, BufCap}
\* the caller's receive buffer before a call
RxBufs == {[i \in 1 .. BufCap |-> 0]}
\* the caller's *return_len before a call
RxLens == {BYTE_MOD - 1}
\* sizes passed to lora_implicit_header_mode
ImplicitSizes == {2}
\* frequencies passed to lora_set_frequency, in Hz
Freqs == {100, 433000000, 433050000, 867999999, 868000000, 915000000}
\* denominators passed to lora_set_coding_rate
CodingRates == (0 .. 12) \cup {BYTE_MOD - 1}
\* pins and modes passed to lora_set_dio_mapping and lora_get_dio_mapping
DioPins == 0 .. 6
DioModes == 0 .. 3
\* buffers passed to lora_write_reg_buffer and lengths passed to
\* lora_read_reg_buffer
RawBufs == {<<>>, <<1, 2, 3>>}
RawLens == 0 .. BufCap
\* contents of REG_MODEM_CONFIG_1 and REG_MODEM_CONFIG_2 as the program
\* starts
ModemSamples == {0, BYTE_MOD - 1}
\* contents of REG_DIO_MAPPING_2 as the program starts
DioSamples == {0, 165, BYTE_MOD - 1}

----------------------------------------------------------------------------
(* State and actions.                                                      *)

\* The call that has just returned: its name, the status it returned, the
\* transport calls that failed (F) and those it made outside its polling
\* loop (calls), the reads and delays of its polling loop, whether the poll
\* saw what it waited for, its other inputs (in) and outputs (out).
Obs(op, ret, F, calls, polls, delays, seen, in, out) ==
    [op |-> op, ret |-> ret, F |-> F, calls |-> calls, polls |-> polls,
     delays |-> delays, seen |-> seen, in |-> in, out |-> out]

NoObs == Obs("none", LORA_OK, {}, <<>>, 0, 0, FALSE, <<>>, <<>>)

\* no call is under way
NoCall == [op |-> "none"]

\* no call is under way and the last one has been taken note of
Idle == obs.op = "none" /\ call.op = "none"

\* the function that made the last successful write of REG_OP_MODE
ModeBy(old, op, calls) ==
    IF \E i \in DOMAIN calls :
          calls[i].k = "write" /\ calls[i].reg = REG_OP_MODE /\ calls[i].ok
    THEN op ELSE old

\* the history of reception as the program starts.  crc: the radio raised
\* the payload-CRC-error flag for the packet it received last; delivered: a
\* call of lora_receive_packet has returned LORA_OK since the radio last
\* raised RX-done; size: the size given to the last
\* lora_implicit_header_mode (0: none)
Hist0 == [crc |-> FALSE, delivered |-> FALSE, size |-> 0]

\* the driver's statics as the program starts, the radio's registers
\* holding r
PowerOn(r) ==
    /\ regs = r
    /\ fifo = [c \in 0 .. (FifoSize - 1) |-> 0]
    /\ implicit = 0
    /\ send_packet_lost = 0
    /\ frequency = 0
    /\ timed_out = 0
    /\ hist = Hist0
    /\ inited = FALSE
    /\ mode_by = "none"
    /\ call = NoCall
    /\ obs = NoObs

\* the radio's registers all zero
ZeroRegs == [r \in Regs |-> 0]

Init == PowerOn(ZeroRegs)

\* the radio and the history variables when a call returns from world w.
\* A call is made when the caller is between calls (Idle): that is the first
\* condition of every action of the driver.
Return(op, w, ret, F, polls, delays, seen, in, out) ==
    /\ regs' = w.regs
    /\ fifo' = w.fifo
    /\ mode_by' = ModeBy(mode_by, op, w.calls)
    /\ call' = NoCall
    /\ obs' = Obs(op, ret, F, w.calls, polls, delays, seen, in, out)

\* the caller takes note of the returned call and goes on
Observe ==
    /\ obs.op # "none"
    /\ obs' = NoObs
    /\ UNCHANGED <<regs, fifo, implicit, send_packet_lost, frequency, timed_out,
                   inited, mode_by, hist, call>>

\* the entry of lora_driver_init (lines 430-435), with one of the failure
\* patterns FS for its configuration accesses: spi_init() and the locals of
\* the version loop.  The call stays under way (call).  The radio will
\* answer CHIP_VERSION from the read number k (one of Ks) of REG_VERSION on,
\* the reads 1 .. vfu (vfu one of Vs) fail and leave the uninitialised local
\* version at jv.
DriverInit(FS, Ks, Vs) ==
    /\ Idle
    /\ \E F \in FS, k \in Ks, vfu \in Vs :
        \E jv \in (IF vfu = 0 THEN {0} ELSE JunkVersion) :
           /\ call' = [op |-> "init", F |-> F, k |-> k, vfu |-> vfu, jv |-> jv,
                       regs |-> regs, s |-> InitLoop0]
           /\ UNCHANGED <<regs, fifo, implicit, send_packet_lost, frequency,
                          timed_out, inited, mode_by, hist, obs>>

\* one pass of the version loop of the lora_driver_init under way (lines
\* 436-442): the test of the counter, the read of REG_VERSION, the
\* comparison, and the delay in which the caller waits for the radio
InitWait ==
    /\ call.op = "init"
    /\ ~call.s.done
    /\ call' = [call EXCEPT !.s = InitStep(@, call.k, call.vfu, call.jv)]
    /\ UNCHANGED <<regs, fifo, implicit, send_packet_lost, frequency,
                   timed_out, inited, mode_by, hist, obs>>

\* the end of the lora_driver_init under way, its version loop left (lines
\* 444-457): the test of the counter, the configuration accesses and the
\* return; jl is what the uninitialised local lna_val holds
InitConfig ==
    /\ call.op = "init"
    /\ call.s.done
    /\ \E jl \in JunkIf(4 \in call.F) :
           /\ LET res == InitSetup(World0(regs, fifo), call.F, call.s.i, jl)
              IN  /\ Return("init", res.w, res.ret, call.F, call.s.reads,
                            call.s.delays, res.seen,
                            [k |-> call.k, vfu |-> call.vfu, jv |-> call.jv,
                             regs |-> call.regs], <<>>)
                  /\ inited' = (inited \/ res.ret = LORA_OK)
           /\ UNCHANGED <<implicit, send_packet_lost, frequency, timed_out, hist>>

IdleMode(FS) ==
    /\ Idle
    /\ \E F \in FS :
           /\ LET res == lora_idle_mode(World0(regs, fifo), F)
              IN  Return("idle_mode", res.w, res.ret, F, 0, 0, FALSE, <<>>, <<>>)
           /\ UNCHANGED <<implicit, send_packet_lost, frequency, timed_out, inited, hist>>

SleepMode(FS) ==
    /\ Idle
    /\ \E F \in FS :
           /\ LET res == lora_sleep_mode(World0(regs, fifo), F)
              IN  Return("sleep_mode", res.w, res.ret, F, 0, 0, FALSE, <<>>, <<>>)
           /\ UNCHANGED <<implicit, send_packet_lost, frequency, timed_out, inited, hist>>

ReceiveMode(FS) ==
    /\ Idle
    /\ \E F \in FS :
           /\ LET res == lora_receive_mode(World0(regs, fifo), F)
              IN  Return("receive_mode", res.w, res.ret, F, 0, 0, FALSE, <<>>, <<>>)
           /\ UNCHANGED <<implicit, send_packet_lost, frequency, timed_out, inited, hist>>

\* void lora_close(void): lora_sleep_mode(), its status dropped
Close(FS) ==
    /\ Idle
    /\ \E F \in FS :
           /\ LET res == lora_sleep_mode(World0(regs, fifo), F)
              IN  Return("close", res.w, LORA_OK, F, 0, 0, FALSE, <<>>, <<>>)
           /\ UNCHANGED <<implicit, send_packet_lost, frequency, timed_out, inited, hist>>

ExplicitHeaderMode(FS) ==
    /\ Idle
    /\ \E F \in FS :
           /\ LET res == lora_explicit_header_mode(World0(regs, fifo), F)
              IN  Return("explicit_header_mode", res.w, res.ret, F, 0, 0, FALSE,
                         [regs |-> regs], <<>>)
           /\ implicit' = 0
           /\ UNCHANGED <<send_packet_lost, frequency, timed_out, inited, hist>>

ImplicitHeaderMode(FS) ==
    /\ Idle
    /\ \E F \in FS, size \in ImplicitSizes :
        \E jreg \in JunkIf(1 \in F) :
           /\ LET res == lora_implicit_header_mode(World0(regs, fifo), F, size, jreg)
              IN  Return("implicit_header_mode", res.w, res.ret, F, 0, 0, FALSE,
                         [size |-> size, regs |-> regs], <<>>)
           /\ hist' = [hist EXCEPT !.size = size]
           /\ implicit' = 1
           /\ UNCHANGED <<send_packet_lost, frequency, timed_out, inited>>

\* the send with the results res reached the poll and left it without
\* having read TX-done
SendTimedOut(res) == res.polls > 0 /\ ~res.seen

\* the return of lora_send_packet, called with the payload data and the
\* poll case pc, with the results res
SendReturn(res, F, data, pc) ==
    /\ Return("send", res.w, res.ret, F, res.polls, res.delays, res.seen,
              [size |-> Len(data), lost |-> send_packet_lost,
               t |-> pc.t, fu |-> pc.fu], <<>>)
    /\ send_packet_lost' = res.lost
    /\ timed_out' = IF SendTimedOut(res) THEN timed_out + 1 ELSE timed_out
    /\ UNCHANGED <<implicit, frequency, inited, hist>>

\* lora_send_packet up to the completion poll (lines 464-482): the setup
\* accesses, and the return when one of them failed.  When they succeeded
\* the call stays under way (call): the radio is transmitting, the FIFO and
\* the payload length are loaded, and the poll starts.  The radio will hold
\* TX-done from the poll read pc.t on, the poll reads 1 .. pc.fu fail.
SendBegin(F, data, pc) ==
    LET s == SendSetup(World0(regs, fifo), F, data)
    IN  IF s.ret # LORA_OK
        THEN SendReturn([w |-> s.w, ret |-> LORA_FAILED_SEND_PACKET,
                         polls |-> 0, delays |-> 0, seen |-> FALSE,
                         lost |-> send_packet_lost], F, data, pc)
        ELSE /\ regs' = s.w.regs
             /\ fifo' = s.w.fifo
             /\ mode_by' = ModeBy(mode_by, "send", s.w.calls)
             /\ call' = [op |-> "send", F |-> F, data |-> data, pc |-> pc,
                         calls |-> s.w.calls, n |-> s.w.n, s |-> SendLoop0]
             /\ UNCHANGED <<implicit, send_packet_lost, frequency, timed_out,
                            inited, hist, obs>>

\* the send of data with the poll case pc will reach its poll and leave it
\* at the bound: the setup accesses succeed and no read up to the bound,
\* the reads 1 .. pc.fu failing, finds TX-done
SendWillTimeOut(F, data, pc) ==
    /\ SendSetup(World0(regs, fifo), F, data).ret = LORA_OK
    /\ Max(IF HasTxDone(regs[REG_IRQ_FLAGS]) THEN 1 ELSE pc.t, pc.fu + 1)
           > POLL_BOUND

\* lora_send_packet with the payload data, the radio raising TX-done at
\* poll read pc.t, the poll reads 1 .. pc.fu failing; the timed-out sends
\* are followed up to MaxTimedOut
Send(F, data, pc) ==
    /\ Idle
    /\ SendWillTimeOut(F, data, pc) => timed_out < MaxTimedOut
    /\ SendBegin(F, data, pc)

\* lora_send_packet; the lost-packet counter is followed up to MaxLost
SendPacket(FS, Bufs, PCs) ==
    /\ Idle
    /\ \E F \in FS, data \in Bufs, pc \in PCs :
           /\ SendWillTimeOut(F, data, pc) => send_packet_lost < MaxLost
           /\ SendBegin(F, data, pc)

\* one pass of the completion poll of the send under way (lines 484-497):
\* the read of REG_IRQ_FLAGS, the tests, and the delay in which the caller
\* waits while the radio transmits and raises TX-done
SendWait ==
    /\ call.op = "send"
    /\ ~call.s.done
    /\ LET p == SendPoll(call.s, regs, call.pc.t, call.pc.fu)
       IN  /\ regs' = p.regs
           /\ call' = [call EXCEPT !.s = p.s]
    /\ UNCHANGED <<fifo, implicit, send_packet_lost, frequency, timed_out,
                   inited, mode_by, hist, obs>>

\* the end of the send under way, its poll left (lines 498-506): the count
\* of the lost packet, the closing accesses and the return
SendClose ==
    /\ call.op = "send"
    /\ call.s.done
    /\ LET e == SendFinish([regs |-> regs, fifo |-> fifo, calls |-> call.calls,
                            n |-> call.n], call.F)
       IN  SendReturn([w |-> e.w, ret |-> e.ret, polls |-> call.s.polls,
                       delays |-> call.s.delays, seen |-> call.s.seen,
                       lost |-> SendLost(call.s.loop, send_packet_lost)],
                      call.F, call.data, call.pc)

\* lora_receive_packet into a buffer of one of the capacities Sizes holding
\* b, *return_len holding rl
ReceivePacket(FS, Sizes) ==
    /\ Idle
    /\ \E F \in FS, size \in Sizes, b \in RxBufs, rl \in RxLens :
        \E jirq \in JunkIf(1 \in F), jreg \in JunkIf(5 \in F) :
           /\ LET res == lora_receive_packet(World0(regs, fifo), F, b, rl, size,
                                             implicit, jirq, jreg)
              IN  /\ Return("receive", res.w, res.ret, F, 0, 0, FALSE,
                            [size |-> size, buf |-> b, return_len |-> rl,
                             irq |-> res.irq, implicit |-> implicit,
                             regs |-> regs, fifo |-> fifo, hist |-> hist],
                            [buf |-> res.buf, return_len |-> res.return_len])
                  /\ hist' = [hist EXCEPT
                                 !.delivered = @ \/ res.ret = LORA_OK]
           /\ UNCHANGED <<implicit, send_packet_lost, frequency, timed_out, inited>>

\* lora_received with *received holding rcv and *crc_error holding crc
Received(FS) ==
    /\ Idle
    /\ \E F \in FS, rcv \in BOOLEAN, crc \in BOOLEAN :
           /\ LET res == lora_received(World0(regs, fifo), F, rcv, crc)
              IN  Return("received", res.w, res.ret, F, 0, 0, FALSE,
                         [received |-> rcv, crc_error |-> crc, irq |-> res.irq],
                         [received |-> res.received, crc_error |-> res.crc_error])
           /\ UNCHANGED <<implicit, send_packet_lost, frequency, timed_out, inited, hist>>

\* uint8_t lora_packet_lost(void)
PacketLost ==
    /\ Idle
    /\ Return("packet_lost", World0(regs, fifo), LORA_OK, {}, 0, 0, FALSE,
              <<>>, [lost |-> lora_packet_lost(send_packet_lost)])
    /\ UNCHANGED <<implicit, send_packet_lost, frequency, timed_out, inited, hist>>

\* lora_set_frequency
SetFrequency(FS, Fs) ==
    /\ Idle
    /\ \E F \in FS, f \in Fs :
           LET res == lora_set_frequency(World0(regs, fifo), F, f)
           IN  /\ Return("set_frequency", res.w, res.ret, F, 0, 0, FALSE,
                         [frequency |-> f], <<>>)
               /\ frequency' = res.frequency
               /\ UNCHANGED <<implicit, send_packet_lost, timed_out, inited, hist>>

\* lora_packet_rssi with *rssi holding old
PacketRssi(FS) ==
    /\ Idle
    /\ \E F \in FS, old \in {0} :
           /\ LET res == lora_packet_rssi(World0(regs, fifo), F, frequency, old)
              IN  Return("packet_rssi", res.w, res.ret, F, 0, 0, FALSE,
                         [raw |-> regs[REG_PKT_RSSI_VALUE],
                          frequency |-> frequency, rssi |-> old],
                         [rssi |-> res.val])
           /\ UNCHANGED <<implicit, send_packet_lost, frequency, timed_out, inited, hist>>

\* a setter of the radio's configuration that has returned res
ConfigReturn(op, res, F, in) ==
    /\ Return(op, res.w, res.ret, F, 0, 0, FALSE, in, <<>>)
    /\ UNCHANGED <<implicit, send_packet_lost, frequency, timed_out, inited, hist>>

\* a getter of the radio's configuration that has returned res
GetterReturn(op, res, F, in) ==
    /\ Return(op, res.w, res.ret, F, 0, 0, FALSE, in, [val |-> res.val])
    /\ UNCHANGED <<implicit, send_packet_lost, frequency, timed_out, inited, hist>>

SetSpreadingFactor(FS, Ss) ==
    /\ Idle
    /\ \E F \in FS, sf \in Ss :
        \E jreg \in JunkIf(3 \in F) :
           /\ ConfigReturn("set_spreading_factor",
                  lora_set_spreading_factor(World0(regs, fifo), F, sf, jreg),
                  F, [sf |-> sf, regs |-> regs])

GetSpreadingFactor(FS) ==
    /\ Idle
    /\ \E F \in FS :
           GetterReturn("get_spreading_factor",
               lora_get_spreading_factor(World0(regs, fifo), F, 0),
               F, [regs |-> regs])

EnableCrc(FS) ==
    /\ Idle
    /\ \E F \in FS :
           ConfigReturn("enable_crc", lora_enable_crc(World0(regs, fifo), F),
                        F, [regs |-> regs])

DisableCrc(FS) ==
    /\ Idle
    /\ \E F \in FS :
           ConfigReturn("disable_crc", lora_disable_crc(World0(regs, fifo), F),
                        F, [regs |-> regs])

SetBandwidth(FS, Bs) ==
    /\ Idle
    /\ \E F \in FS, sbw \in Bs :
           ConfigReturn("set_bandwidth",
               lora_set_bandwidth(World0(regs, fifo), F, sbw),
               F, [sbw |-> sbw, regs |-> regs])

GetBandwidth(FS) ==
    /\ Idle
    /\ \E F \in FS :
           GetterReturn("get_bandwidth",
               lora_get_bandwidth(World0(regs, fifo), F, 0), F, [regs |-> regs])

SetCodingRate(FS, Ds) ==
    /\ Idle
    /\ \E F \in FS, d \in Ds :
           ConfigReturn("set_coding_rate",
               lora_set_coding_rate(World0(regs, fifo), F, d),
               F, [denominator |-> d, regs |-> regs])

GetCodingRate(FS) ==
    /\ Idle
    /\ \E F \in FS :
           GetterReturn("get_coding_rate",
               lora_get_coding_rate(World0(regs, fifo), F, 0), F, [regs |-> regs])

SetDioMapping(FS, Pins, Modes) ==
    /\ Idle
    /\ \E F \in FS, dio \in Pins, mode \in Modes :
           ConfigReturn("set_dio_mapping",
               lora_set_dio_mapping(World0(regs, fifo), F, dio, mode),
               F, [dio |-> dio, mode |-> mode, regs |-> regs])

GetDioMapping(FS, Pins) ==
    /\ Idle
    /\ \E F \in FS, dio \in Pins :
           GetterReturn("get_dio_mapping",
               lora_get_dio_mapping(World0(regs, fifo), F, dio, 0),
               F, [dio |-> dio, regs |-> regs])

\* the public lora_write_reg: one of the registers Rs, one of the values Vs
WriteReg(FS, Rs, Vs) ==
    /\ Idle
    /\ \E F \in FS, reg \in Rs, val \in Vs :
           /\ LET res == lora_write_reg(World0(regs, fifo), F, reg, val)
              IN  Return("write_reg", res.w, res.ret, F, 0, 0, FALSE,
                         [reg |-> reg, val |-> val, regs |-> regs], <<>>)
           /\ UNCHANGED <<implicit, send_packet_lost, frequency, timed_out, inited, hist>>

\* the public lora_read_reg of one of the registers Rs with *val holding old
ReadReg(FS, Rs) ==
    /\ Idle
    /\ \E F \in FS, reg \in Rs, old \in {0} :
           /\ LET res == lora_read_reg(World0(regs, fifo), F, reg, old)
              IN  Return("read_reg", res.w, res.ret, F, 0, 0, FALSE,
                         [reg |-> reg, val |-> old, regs |-> regs],
                         [val |-> res.val])
           /\ UNCHANGED <<implicit, send_packet_lost, frequency, timed_out, inited, hist>>

\* the public lora_write_reg_buffer of one of the buffers Bufs through
\* REG_FIFO
WriteRegBuffer(FS, Bufs) ==
    /\ Idle
    /\ \E F \in FS, data \in Bufs :
           /\ LET res == lora_write_reg_buffer(World0(regs, fifo), F, REG_FIFO, data)
              IN  Return("write_reg_buffer", res.w, res.ret, F, 0, 0, FALSE,
                         [val |-> data, regs |-> regs, fifo |-> fifo], <<>>)
           /\ UNCHANGED <<implicit, send_packet_lost, frequency, timed_out, inited, hist>>

\* the public lora_read_reg_buffer of one of the lengths Lens through
\* REG_FIFO into a buffer holding b
ReadRegBuffer(FS, Lens) ==
    /\ Idle
    /\ \E F \in FS, len \in Lens, b \in RxBufs :
           /\ LET res == lora_read_reg_buffer(World0(regs, fifo), F, REG_FIFO, b, len)
              IN  Return("read_reg_buffer", res.w, res.ret, F, 0, 0, FALSE,
                         [len |-> len, val |-> b, regs |-> regs, fifo |-> fifo],
                         [val |-> res.val])
           /\ UNCHANGED <<implicit, send_packet_lost, frequency, timed_out, inited, hist>>

\* the radio, in receive-continuous mode, receives a packet: it stores it in
\* the FIFO at addr, sets the received-bytes and current-address registers
\* and raises RX-done, with the CRC-error flag when crc.  It does so between
\* two calls of the driver or while a call under way waits.
HwRxPacket(Pkts) ==
    \E pkt \in Pkts, addr \in RxAddrs, crc \in BOOLEAN :
        /\ obs.op = "none"
        /\ regs[REG_OP_MODE] = OpRxCont
        /\ LET hw == HwFifoWrite([regs EXCEPT ![REG_FIFO_ADDR_PTR] = addr], fifo, pkt)
           IN  /\ fifo' = hw.fifo
               /\ regs' = [regs EXCEPT
                     ![REG_RX_NB_BYTES] = Len(pkt),
                     ![REG_FIFO_RX_CURRENT_ADDR] = addr,
                     ![REG_IRQ_FLAGS] = BitOr(@, IF crc
                          THEN BitOr(IRQ_RX_DONE_MASK, IRQ_PAYLOAD_CRC_ERROR_MASK)
                          ELSE IRQ_RX_DONE_MASK)]
        /\ hist' = [hist EXCEPT !.crc = crc, !.delivered = FALSE]
        /\ UNCHANGED <<implicit, send_packet_lost, frequency, timed_out, inited,
                       mode_by, call, obs>>

----------------------------------------------------------------------------
(* Specifications.                                                         *)

\* The program: every public function of the driver under every failure
\* pattern of at most MaxFails calls, and the radio.
Next ==
    \/ DriverInit(FailSets(7, MaxFails), VersionAt, VersionFailUntil)
    \/ InitWait
    \/ InitConfig
    \/ IdleMode(FailSets(1, 1))
    \/ SleepMode(FailSets(1, 1))
    \/ ReceiveMode(FailSets(1, 1))
    \/ Close(FailSets(1, 1))
    \/ ExplicitHeaderMode(FailSets(2, MaxFails))
    \/ ImplicitHeaderMode(FailSets(3, MaxFails))
    \/ SendPacket(FailSets(7, MaxFails), SendBufs, PollCases)
    \/ SendWait
    \/ SendClose
    \/ ReceivePacket(FailSets(7, MaxFails), RxSizes)
    \/ Received(FailSets(2, MaxFails))
    \/ PacketLost
    \/ SetFrequency(FailSets(3, MaxFails), Freqs)
    \/ PacketRssi(FailSets(1, 1))
    \/ SetSpreadingFactor(FailSets(4, MaxFails), Byte)
    \/ GetSpreadingFactor(FailSets(1, 1))
    \/ EnableCrc(FailSets(2, MaxFails))
    \/ DisableCrc(FailSets(2, MaxFails))
    \/ SetBandwidth(FailSets(2, MaxFails), Byte)
    \/ GetBandwidth(FailSets(1, 1))
    \/ SetCodingRate(FailSets(2, MaxFails), Byte)
    \/ GetCodingRate(FailSets(1, 1))
    \/ SetDioMapping(FailSets(2, MaxFails), DioPins, DioModes)
    \/ GetDioMapping(FailSets(1, 1), DioPins)
    \/ WriteReg(FailSets(1, 1), Regs, Byte)
    \/ ReadReg(FailSets(1, 1), Regs)
    \/ WriteRegBuffer(FailSets(1, 1), RawBufs)
    \/ ReadRegBuffer(FailSets(1, 1), RawLens)
    \/ HwRxPacket(RxPkts)
    \/ Observe

Spec == Init /\ [][Next]_vars

(* The specifications that follow take parts of the program, each with the *)
(* inputs of one concern, so that its states can be enumerated.            *)

\* lora_driver_init, the mode functions, lora_close and lora_send_packet in
\* any order, at most one transport failure in each (the read of REG_LNA
\* into the uninitialised lna_val fails with the radio answering at once),
\* the radio answering the send at its first or third poll read
NextMode ==
    \/ DriverInit(Sparing(FailSets(7, 1), {4}), {1, 3}, VersionFailUntil)
    \/ DriverInit({{4}}, {1}, {0})
    \/ InitWait
    \/ InitConfig
    \/ IdleMode(FailSets(1, 1))
    \/ SleepMode(FailSets(1, 1))
    \/ ReceiveMode(FailSets(1, 1))
    \/ Close(FailSets(1, 1))
    \/ SendPacket(FailSets(7, 1), {<<17, 34>>}, [t : {1, 3}, fu : {0}])
    \/ SendWait
    \/ SendClose
    \/ Observe

SpecMode == Init /\ [][NextMode]_vars

\* lora_driver_init: over a working transport the radio answers from any
\* of its reads; one transport call fails with the radio answering from
\* its first, an early or its last read, or never; and the read of REG_LNA
\* into the uninitialised lna_val (call 4) fails with the radio answering
\* at once
NextInit ==
    \/ DriverInit({{}}, VersionAt, VersionFailUntil)
    \/ DriverInit(Sparing(FailSets(7, 1), {4}) \ {{}},
                  {1, 3, TIMEOUT_RESET, TIMEOUT_RESET + 1}, VersionFailUntil)
    \/ DriverInit({{4}}, {1}, {0})
    \/ InitWait
    \/ InitConfig
    \/ Observe

SpecInit == Init /\ [][NextInit]_vars

\* lora_send_packet under every failure pattern, the radio answering early
NextSend ==
    \/ SendPacket(FailSets(7, MaxFails), SendBufs, ShortPolls)
    \/ SendWait
    \/ SendClose
    \/ Observe

SpecSend == Init /\ [][NextSend]_vars

\* the completion poll of lora_send_packet, the setup accesses succeeding
\* and the closing accesses under every failure pattern: the radio answers
\* early, at the last poll read or never, or every poll read fails
NextPoll ==
    \/ SendPacket(Sparing(FailSets(7, MaxFails), 1 .. 5), {<<>>}, PollCases)
    \/ SendWait
    \/ SendClose
    \/ Observe

SpecPoll == Init /\ [][NextPoll]_vars

\* the program after LostStart sends of an empty payload have timed out
\* over a working transport: the radio asleep, the lost-packet counter at
\* LostStart
InitLost ==
    /\ regs = [ZeroRegs EXCEPT ![REG_OP_MODE] = OpSleep]
    /\ fifo = [c \in 0 .. (FifoSize - 1) |-> 0]
    /\ implicit = 0
    /\ send_packet_lost = LostStart % BYTE_MOD
    /\ frequency = 0
    /\ timed_out = LostStart
    /\ hist = Hist0
    /\ inited = FALSE
    /\ mode_by = "send"
    /\ call = NoCall
    /\ obs = NoObs

\* sends, lora_packet_lost, lora_driver_init and lora_close over a working
\* transport, the lost-packet counter followed from LostStart through the
\* end of its range
NextLost ==
    \/ \E t \in {1, POLL_BOUND + 1} : Send({}, <<>>, [t |-> t, fu |-> 0])
    \/ SendWait
    \/ SendClose
    \/ PacketLost
    \/ DriverInit({{}}, {1}, VersionFailUntil)
    \/ InitWait
    \/ InitConfig
    \/ Close({{}})
    \/ Observe

SpecLost == InitLost /\ [][NextLost]_vars

\* reception: the radio receiving, lora_received and lora_receive_packet
\* under every failure pattern, in either header mode (set over a working
\* transport); the patterns of lora_receive_packet in which a read into an
\* uninitialised local fails (calls 1 and 5) are that failure alone, with a
\* buffer of full capacity
NextRecv ==
    \/ ReceiveMode(FailSets(1, 1))
    \/ HwRxPacket(RxPkts)
    \/ ReceivePacket(Sparing(FailSets(7, MaxFails), {1, 5}), RxSizes)
    \/ ReceivePacket({{1}, {5}}, {BufCap})
    \/ Received(FailSets(2, MaxFails))
    \/ ExplicitHeaderMode(FailSets(2, 0))
    \/ ImplicitHeaderMode(FailSets(3, 0))
    \/ Observe

SpecRecv == Init /\ [][NextRecv]_vars

\* sends and receptions in either header mode over a working transport, the
\* sends of sizes below, at and above the size of the implicit header mode
NextImplicit ==
    \/ ImplicitHeaderMode({{}})
    \/ ExplicitHeaderMode({{}})
    \/ SendPacket({{}}, {<<>>, <<17, 34>>, <<17, 34, 51>>}, [t : {1}, fu : {0}])
    \/ SendWait
    \/ SendClose
    \/ ReceiveMode({{}})
    \/ HwRxPacket(RxPkts)
    \/ ReceivePacket({{}}, RxSizes)
    \/ Observe

SpecImplicit == Init /\ [][NextImplicit]_vars

\* the setters and getters of REG_MODEM_CONFIG_1, from any contents of the
\* register
InitMc1 == \E v \in Byte : PowerOn([ZeroRegs EXCEPT ![REG_MODEM_CONFIG_1] = v])

NextMc1 ==
    \/ SetBandwidth({{}}, Byte)
    \/ SetBandwidth(FailSets(2, 1), {0, 9, 10, BYTE_MOD - 1})
    \/ GetBandwidth(FailSets(1, 1))
    \/ SetCodingRate({{}}, Byte)
    \/ SetCodingRate(FailSets(2, 1), CodingRates)
    \/ GetCodingRate(FailSets(1, 1))
    \/ ExplicitHeaderMode(FailSets(2, 1))
    \/ ImplicitHeaderMode(FailSets(3, 1))
    \/ Observe

SpecMc1 == InitMc1 /\ [][NextMc1]_vars

\* the setters and getters of REG_MODEM_CONFIG_2, from any contents of the
\* register
InitMc2 == \E v \in Byte : PowerOn([ZeroRegs EXCEPT ![REG_MODEM_CONFIG_2] = v])

NextMc2 ==
    \/ SetSpreadingFactor({{}}, Byte)
    \/ SetSpreadingFactor(FailSets(4, 1), {5, 6, 12, 13})
    \/ GetSpreadingFactor(FailSets(1, 1))
    \/ EnableCrc(FailSets(2, 1))
    \/ DisableCrc(FailSets(2, 1))
    \/ Observe

SpecMc2 == InitMc2 /\ [][NextMc2]_vars

\* the setters of REG_MODEM_CONFIG_1 and REG_MODEM_CONFIG_2 in any order
\* over a working transport, from registers all clear or all set
InitModem ==
    \E a \in ModemSamples, b \in ModemSamples :
        PowerOn([ZeroRegs EXCEPT ![REG_MODEM_CONFIG_1] = a,
                                 ![REG_MODEM_CONFIG_2] = b])

NextModem ==
    \/ SetBandwidth({{}}, 0 .. 10)
    \/ SetCodingRate({{}}, 4 .. 9)
    \/ ExplicitHeaderMode({{}})
    \/ ImplicitHeaderMode({{}})
    \/ SetSpreadingFactor({{}}, {5, 6, 9, 12, 13})
    \/ EnableCrc({{}})
    \/ DisableCrc({{}})
    \/ Observe

SpecModem == InitModem /\ [][NextModem]_vars

\* lora_set_dio_mapping and lora_get_dio_mapping over a working transport,
\* and lora_set_dio_mapping with one failing transport call
InitDio == \E v \in DioSamples : PowerOn([ZeroRegs EXCEPT ![REG_DIO_MAPPING_2] = v])

NextDio ==
    \/ SetDioMapping({{}}, DioPins, DioModes)
    \/ SetDioMapping(FailSets(2, 1) \ {{}}, {0, 3, 4, 5}, {1})
    \/ GetDioMapping({{}}, DioPins)
    \/ Observe

SpecDio == InitDio /\ [][NextDio]_vars

\* lora_set_frequency and lora_packet_rssi, the radio holding any packet
\* RSSI
InitRssi == \E v \in Byte : PowerOn([ZeroRegs EXCEPT ![REG_PKT_RSSI_VALUE] = v])

NextRssi ==
    \/ SetFrequency(FailSets(3, 1), Freqs)
    \/ PacketRssi(FailSets(1, 1))
    \/ Observe

SpecRssi == InitRssi /\ [][NextRssi]_vars

----------------------------------------------------------------------------
(* Properties.  obs describes the call that has just returned; the        *)
(* registers are those the call leaves.                                   *)

Min(a, b) == IF a <= b THEN a ELSE b

\* bit m of the flags v is set
FlagSet(v, m) == BitAnd(v, m) = m

\* the transport call i of the returned operation
IsWrite(c, reg) == c.k = "write" /\ c.reg = reg
IsRead(c, reg)  == c.k = "read" /\ c.reg = reg

\* a send has returned whose five setup accesses succeeded
SendSetupDone == obs.op = "send" /\ obs.F \cap (1 .. 5) = {}

\* C1: a send whose setup succeeded leaves lost_packet_count as it was when a
\* poll showed TX-done, and exactly one higher when the bound was reached
\* without it
C1_LostCount ==
    SendSetupDone =>
        /\ obs.seen => send_packet_lost = obs.in.lost
        /\ ~obs.seen => send_packet_lost = obs.in.lost + 1

\* C1, the failing case: a send timed out and the count went from 255 to 0
C1_Wrapped ==
    /\ SendSetupDone
    /\ ~obs.seen
    /\ obs.polls = POLL_BOUND
    /\ obs.in.lost = BYTE_MOD - 1
    /\ send_packet_lost = 0

\* C2: whenever send returns success, the operating-mode register holds
\* Sleep
C2_SuccessInSleep ==
    (obs.op = "send" /\ obs.ret = LORA_OK) => regs[REG_OP_MODE] = OpSleep

\* C2, the failing case: send returned success, its Sleep write had failed
\* and the register holds Transmit
C2_SuccessInTransmit ==
    /\ obs.op = "send"
    /\ obs.ret = LORA_OK
    /\ obs.F = {6}
    /\ regs[REG_OP_MODE] = OpTx

\* C3: after a successful init, at every return of an operation the
\* operating-mode register holds Sleep or Standby unless the last successful
\* mode write was made by lora_receive_mode, and no return of send leaves it
\* holding Transmit
C3_ModeAtReturn ==
    (inited /\ obs.op # "none") =>
        /\ \/ regs[REG_OP_MODE] \in {OpSleep, OpStandby}
           \/ mode_by = "receive_mode"
        /\ obs.op = "send" => regs[REG_OP_MODE] # OpTx

\* C3, the failing case: after a successful init, send returned its
\* setup-failure status and left the register holding Transmit
C3_SendLeavesTransmit ==
    /\ inited
    /\ obs.op = "send"
    /\ obs.ret = LORA_FAILED_SEND_PACKET
    /\ mode_by = "send"
    /\ regs[REG_OP_MODE] = OpTx

\* C4: if any of send's five setup accesses fails, send returns
\* LORA_FAILED_SEND_PACKET, reads REG_IRQ_FLAGS not once, delays not once,
\* makes no access after the five, and leaves lost_packet_count as it was
C4_SetupFailure ==
    (obs.op = "send" /\ obs.F \cap (1 .. 5) # {}) =>
        /\ obs.ret = LORA_FAILED_SEND_PACKET
        /\ obs.polls = 0
        /\ obs.delays = 0
        /\ Len(obs.calls) = 5
        /\ \A i \in DOMAIN obs.calls : ~IsRead(obs.calls[i], REG_IRQ_FLAGS)
        /\ send_packet_lost = obs.in.lost

\* C4, its case: the first of the setup accesses failed, each of the other
\* four succeeded, and send has returned
C4_FirstSetupAccessFailed ==
    /\ obs.op = "send"
    /\ obs.F = {1}
    /\ Len(obs.calls) = 5
    /\ ~obs.calls[1].ok
    /\ obs.calls[5].ok
    /\ obs.ret = LORA_FAILED_SEND_PACKET

\* C5: if the flags receive has read lack the RX-done bit, receive returns a
\* failure status, leaves the buffer and *return_len as they were, reads
\* nothing from REG_FIFO and writes neither REG_OP_MODE nor
\* REG_FIFO_ADDR_PTR
C5_NothingReceived ==
    (obs.op = "receive" /\ ~FlagSet(obs.in.irq, IRQ_RX_DONE_MASK)) =>
        /\ obs.ret # LORA_OK
        /\ obs.out.buf = obs.in.buf
        /\ obs.out.return_len = obs.in.return_len
        /\ \A i \in DOMAIN obs.calls :
              /\ obs.calls[i].reg # REG_FIFO
              /\ ~IsWrite(obs.calls[i], REG_OP_MODE)
              /\ ~IsWrite(obs.calls[i], REG_FIFO_ADDR_PTR)

\* C5, its case: a packet waits in the FIFO with RX-done raised, the read of
\* the flags failed, and receive, its flags lacking RX-done, has returned
C5_FlagsReadFailed ==
    /\ obs.op = "receive"
    /\ 1 \in obs.F
    /\ FlagSet(obs.in.regs[REG_IRQ_FLAGS], IRQ_RX_DONE_MASK)
    /\ obs.in.regs[REG_RX_NB_BYTES] > 0
    /\ obs.in.size > 0
    /\ ~FlagSet(obs.in.irq, IRQ_RX_DONE_MASK)

\* C6: when the flags receive has read hold RX-done and the CRC error,
\* receive returns a failure status other than the one it returns when
\* RX-done is absent
C6_CrcStatusDistinct ==
    ( /\ obs.op = "receive"
      /\ FlagSet(obs.in.irq, IRQ_RX_DONE_MASK)
      /\ FlagSet(obs.in.irq, IRQ_PAYLOAD_CRC_ERROR_MASK) ) =>
        /\ obs.ret # LORA_OK
        /\ obs.ret # ReceiveNothingStatus

\* C6, the failing case: receive read RX-done with the CRC error and
\* returned LORA_FAIL, the status of nothing received
C6_CrcReturnsFail ==
    /\ obs.op = "receive"
    /\ obs.F = {}
    /\ FlagSet(obs.in.irq, IRQ_RX_DONE_MASK)
    /\ FlagSet(obs.in.irq, IRQ_PAYLOAD_CRC_ERROR_MASK)
    /\ obs.ret = LORA_FAIL

\* the length L of the packet a receive call finds: REG_PAYLOAD_LENGTH in
\* implicit header mode, REG_RX_NB_BYTES in explicit
RxLength ==
    IF obs.in.implicit # 0 THEN obs.in.regs[REG_PAYLOAD_LENGTH]
    ELSE obs.in.regs[REG_RX_NB_BYTES]

\* the buffer after n bytes of the FIFO, from the address the radio stored
\* the packet at, have been read into it
RxDelivered(n) ==
    [i \in DOMAIN obs.in.buf |->
        IF i <= n
        THEN obs.in.fifo[FifoCell(obs.in.regs[REG_FIFO_RX_CURRENT_ADDR] + i - 1)]
        ELSE obs.in.buf[i]]

\* min(L, capacity) is reported, and that many bytes are read from REG_FIFO
\* into the buffer after Standby and the FIFO pointer have been written
RxExact ==
    LET n == Min(RxLength, obs.in.size)
        c == obs.calls
    IN  /\ obs.out.return_len = n
        /\ obs.out.buf = RxDelivered(n)
        /\ \E i, j, k \in DOMAIN c :
              /\ i < k /\ j < k
              /\ IsWrite(c[i], REG_OP_MODE) /\ c[i].val = OpStandby /\ c[i].ok
              /\ IsWrite(c[j], REG_FIFO_ADDR_PTR) /\ c[j].ok
              /\ c[j].val = obs.in.regs[REG_FIFO_RX_CURRENT_ADDR]
              /\ c[k].k = "read_buf" /\ c[k].reg = REG_FIFO /\ c[k].ok
              /\ c[k].val = n
              /\ \A m \in DOMAIN c : c[m].reg = REG_FIFO => m = k

\* C7: when receive succeeds it reports min(L, capacity), L taken from the
\* register of the header mode, and reads exactly that many bytes from
\* REG_FIFO into the buffer, after the FIFO pointer has been set to the
\* value of REG_FIFO_RX_CURRENT_ADDR and Standby has been written
C7_ReceiveExact ==
    (obs.op = "receive" /\ obs.ret = LORA_OK) => RxExact

\* C7, the failing case: the read of the length failed and receive returned
\* success with length 0 for a packet it had room for
C7_LengthReadFailed ==
    /\ obs.op = "receive"
    /\ obs.ret = LORA_OK
    /\ obs.F = {3}
    /\ Min(RxLength, obs.in.size) > 0
    /\ obs.out.return_len = 0

\* C8: the only write lora_received makes to REG_IRQ_FLAGS is the
\* payload-CRC-error mask, made only when the CRC-error bit is set, and
\* after a call that reported received the RX-done bit is still set
C8_ReceivedKeepsRxDone ==
    obs.op = "received" =>
        /\ \A i \in DOMAIN obs.calls :
              obs.calls[i].k = "write" =>
                  /\ obs.calls[i].reg = REG_IRQ_FLAGS
                  /\ obs.calls[i].val = IRQ_PAYLOAD_CRC_ERROR_MASK
                  /\ FlagSet(obs.in.irq, IRQ_PAYLOAD_CRC_ERROR_MASK)
        /\ (obs.ret = LORA_OK /\ obs.out.received) =>
              FlagSet(regs[REG_IRQ_FLAGS], IRQ_RX_DONE_MASK)

\* C8, its case: lora_received found RX-done with the CRC error, its write
\* went through, and the register holds RX-done alone
C8_CrcCleared ==
    /\ obs.op = "received"
    /\ obs.out.received
    /\ obs.in.irq = BitOr(IRQ_RX_DONE_MASK, IRQ_PAYLOAD_CRC_ERROR_MASK)
    /\ Len(obs.calls) = 2
    /\ obs.calls[2].ok
    /\ regs[REG_IRQ_FLAGS] = IRQ_RX_DONE_MASK

\* C9: whenever lora_received returns success, received tells whether the
\* RX-done bit is set in the flags it read and crc_error whether the
\* payload-CRC-error bit is
C9_TwoBooleans ==
    (obs.op = "received" /\ obs.ret = LORA_OK) =>
        /\ obs.out.received = FlagSet(obs.in.irq, IRQ_RX_DONE_MASK)
        /\ obs.out.crc_error = FlagSet(obs.in.irq, IRQ_PAYLOAD_CRC_ERROR_MASK)

\* C9, the failing case: RX-done is clear, lora_received returned success
\* and crc_error holds what it held before the call, not the CRC-error bit
C9_CrcErrorStale ==
    /\ obs.op = "received"
    /\ obs.ret = LORA_OK
    /\ ~FlagSet(obs.in.irq, IRQ_RX_DONE_MASK)
    /\ obs.in.crc_error
    /\ obs.out.crc_error
    /\ ~FlagSet(obs.in.irq, IRQ_PAYLOAD_CRC_ERROR_MASK)

\* the value of the last write of REG_OP_MODE among the calls c (0: none)
RECURSIVE LastModeWritten(_)
LastModeWritten(c) ==
    IF c = <<>> THEN 0
    ELSE IF IsWrite(c[Len(c)], REG_OP_MODE) THEN c[Len(c)].val
    ELSE LastModeWritten(SubSeq(c, 1, Len(c) - 1))

\* C10: for k in 1 .. 100, when REG_VERSION first reads 0x12 on the k-th
\* poll and all the writes that follow succeed, init reads the version
\* exactly k times, delays k - 1 times, returns success, and its last write
\* of REG_OP_MODE is Standby
C10_InitPolls ==
    ( /\ obs.op = "init"
      /\ obs.in.k \in 1 .. TIMEOUT_RESET
      /\ obs.in.vfu = 0
      /\ obs.F \subseteq {4} ) =>
        /\ obs.polls = obs.in.k
        /\ obs.delays = obs.in.k - 1
        /\ obs.ret = LORA_OK
        /\ LastModeWritten(obs.calls) = OpStandby
        /\ regs[REG_OP_MODE] = OpStandby

\* C10, its case: the version is read as 0x12 on the last poll the loop
\* allows, and init has returned
C10_LastPoll ==
    /\ obs.op = "init"
    /\ obs.in.k = TIMEOUT_RESET
    /\ obs.in.vfu = 0
    /\ obs.F = {}
    /\ obs.polls = TIMEOUT_RESET

\* one of the first TIMEOUT_RESET reads of REG_VERSION of the init that has
\* returned returned 0x12: the read succeeded (the reads 1 .. vfu fail) and
\* the radio answered (it does from its read k on)
VersionReturned ==
    \E j \in 1 .. TIMEOUT_RESET : j > obs.in.vfu /\ j >= obs.in.k

\* C11: when none of the first 100 reads of REG_VERSION returns 0x12, init
\* stops after exactly 100 reads, returns LORA_FAILED_INIT and makes no
\* register write, the radio's registers being as before the call; when one
\* of the first 100 reads returned 0x12, init does not return
\* LORA_FAILED_INIT
C11_InitTimeout ==
    obs.op = "init" =>
        IF VersionReturned
        THEN obs.ret # LORA_FAILED_INIT
        ELSE /\ obs.polls = TIMEOUT_RESET
             /\ obs.ret = LORA_FAILED_INIT
             /\ obs.calls = <<>>
             /\ regs = obs.in.regs

\* C11, the failing case: the radio never answers 0x12, the first read of
\* REG_VERSION fails and leaves the uninitialised local version at 0x12,
\* and init has returned LORA_OK after one read and its seven
\* configuration accesses
C11_JunkVersionAccepted ==
    /\ obs.op = "init"
    /\ ~VersionReturned
    /\ obs.in.vfu = 1
    /\ obs.in.jv = CHIP_VERSION
    /\ obs.polls = 1
    /\ Len(obs.calls) = 7
    /\ obs.ret = LORA_OK
    /\ regs[REG_OP_MODE] = OpStandby

\* one of the numbered transport calls of the call that has returned failed
SomeCallFailed == \E i \in DOMAIN obs.calls : ~obs.calls[i].ok

\* C12: a public operation that returns a status and one of whose transport
\* calls failed (a numbered call, or a read of init's version loop) returns
\* a status other than LORA_OK
C12_FailurePropagates ==
    ( /\ obs.op \notin {"none", "close", "packet_lost"}
      /\ \/ SomeCallFailed
         \/ (obs.op = "init" /\ obs.in.vfu > 0) ) =>
        obs.ret # LORA_OK

\* C12, the failing case: init's read of REG_LNA, its only failing call,
\* has failed and init has returned LORA_OK
C12_LnaReadFailed ==
    /\ obs.op = "init"
    /\ obs.F = {4}
    /\ obs.in.vfu = 0
    /\ Len(obs.calls) >= 4
    /\ IsRead(obs.calls[4], REG_LNA)
    /\ ~obs.calls[4].ok
    /\ obs.ret = LORA_OK

\* C13: the value lora_packet_lost returns is the number of sends that
\* have timed out so far, whatever calls were made in between (sends, init,
\* close) and however many sends timed out
C13_LostIsTimedOut ==
    obs.op = "packet_lost" => obs.out.lost = timed_out

\* C13, the failing case: 256 sends have timed out, the driver has been
\* initialised, and lora_packet_lost has returned 0
C13_LostAfter256 ==
    /\ obs.op = "packet_lost"
    /\ timed_out = BYTE_MOD
    /\ inited
    /\ obs.out.lost = 0

\* the nearest value to x in lo .. hi
Clamp(x, lo, hi) == IF x < lo THEN lo ELSE IF x > hi THEN hi ELSE x

\* the last of the transport calls of the call that has returned
LastCall == obs.calls[Len(obs.calls)]

\* C14: for every 8-bit s, lora_set_spreading_factor(s) over a working
\* transport writes REG_MODEM_CONFIG_2 with clamp(s, 6, 12) in the high
\* nibble and the low nibble the register held before the call, and a
\* lora_get_spreading_factor made next returns clamp(s, 6, 12)
C14_SpreadingFactor ==
    (obs.op = "set_spreading_factor" /\ obs.F = {}) =>
        LET c   == Clamp(obs.in.sf, 6, 12)
            low == obs.in.regs[REG_MODEM_CONFIG_2] % 16
            get == lora_get_spreading_factor(World0(regs, fifo), {}, 0)
        IN  /\ obs.ret = LORA_OK
            /\ IsWrite(LastCall, REG_MODEM_CONFIG_2)
            /\ LastCall.val = 16 * c + low
            /\ regs[REG_MODEM_CONFIG_2] = 16 * c + low
            /\ get.ret = LORA_OK
            /\ get.val = c

\* C14, its case: lora_set_spreading_factor(255) has returned, the low
\* nibble of REG_MODEM_CONFIG_2 being 0xF before the call, and the register
\* holds 0xCF
C14_ClampedHigh ==
    /\ obs.op = "set_spreading_factor"
    /\ obs.F = {}
    /\ obs.in.sf = BYTE_MOD - 1
    /\ obs.in.regs[REG_MODEM_CONFIG_2] % 16 = 15
    /\ regs[REG_MODEM_CONFIG_2] = 207

\* C15: lora_set_bandwidth(b) with b >= 10 returns a status other than
\* LORA_OK, makes no register write and leaves REG_MODEM_CONFIG_1 as it
\* was; with b in 0 .. 9 over a working transport it writes b in the high
\* nibble with the low nibble unchanged, and lora_get_bandwidth made next
\* returns b
C15_Bandwidth ==
    obs.op = "set_bandwidth" =>
        /\ obs.in.sbw >= 10 =>
               /\ obs.ret # LORA_OK
               /\ \A i \in DOMAIN obs.calls : obs.calls[i].k = "read"
               /\ regs = obs.in.regs
        /\ (obs.in.sbw < 10 /\ obs.F = {}) =>
               LET low == obs.in.regs[REG_MODEM_CONFIG_1] % 16
                   get == lora_get_bandwidth(World0(regs, fifo), {}, 0)
               IN  /\ obs.ret = LORA_OK
                   /\ IsWrite(LastCall, REG_MODEM_CONFIG_1)
                   /\ LastCall.val = 16 * obs.in.sbw + low
                   /\ regs[REG_MODEM_CONFIG_1] = 16 * obs.in.sbw + low
                   /\ get.ret = LORA_OK
                   /\ get.val = obs.in.sbw

\* C15, its case: lora_set_bandwidth(10) has returned over a working
\* transport, REG_MODEM_CONFIG_1 holding a bandwidth other than 0 before
\* the call and the same value after it
C15_OutOfRange ==
    /\ obs.op = "set_bandwidth"
    /\ obs.F = {}
    /\ obs.in.sbw = 10
    /\ obs.in.regs[REG_MODEM_CONFIG_1] = 119
    /\ regs[REG_MODEM_CONFIG_1] = 119
    /\ obs.ret = LORA_FAIL

\* the mode lora_get_dio_mapping delivers for pin q over a working
\* transport, the registers holding r
DioModeOf(r, q) == lora_get_dio_mapping(World0(r, fifo), {}, q, 0).val

\* C16: for every pin p in 0 .. 5 and mode m in 0 .. 3, over a working
\* transport and whatever the two DIO-mapping registers held,
\* lora_set_dio_mapping(p, m) returns LORA_OK, lora_get_dio_mapping(p) then
\* returns m, and lora_get_dio_mapping(q) returns for every other pin q
\* what it returned before the call
C16_DioRoundTrip ==
    (obs.op = "set_dio_mapping" /\ obs.F = {} /\ obs.in.dio \in 0 .. 5) =>
        /\ obs.ret = LORA_OK
        /\ DioModeOf(regs, obs.in.dio) = obs.in.mode
        /\ \A q \in (0 .. 5) \ {obs.in.dio} :
               DioModeOf(regs, q) = DioModeOf(obs.in.regs, q)

\* C16, the failing case: lora_set_dio_mapping(4, 1) has returned LORA_OK
\* over a working transport, REG_DIO_MAPPING_2 holding 0 before the call,
\* and lora_get_dio_mapping(4) returns 0
C16_Pin4ModeLost ==
    /\ obs.op = "set_dio_mapping"
    /\ obs.F = {}
    /\ obs.in.dio = 4
    /\ obs.in.mode = 1
    /\ obs.in.regs[REG_DIO_MAPPING_2] = 0
    /\ obs.ret = LORA_OK
    /\ regs[REG_DIO_MAPPING_2] = 0
    /\ DioModeOf(regs, 4) = 0

\* f * 2^19 / 32000000 rounded to the nearest integer (halves up), computed
\* on the quotient and remainder of f by 2 * 15625 to stay within 32 bits:
\* f * 2^19 / (2^11 * 15625) = f * 2^9 / (2 * 15625)
FrfRound(f) ==
    LET d == Shr(FXOSC, 10)
    IN  (f \div d) * Shl(1, 9) + ((f % d) * Shl(1, 9) + d \div 2) \div d

\* the 24-bit value whose bytes the FRF registers r hold
FrfWritten(r) ==
    Shl(r[REG_FRF_MSB], 16) + Shl(r[REG_FRF_MID], 8) + r[REG_FRF_LSB]

\* frf * 32000000 / 2^19 in Hz, rounded down, computed as frf * 15625 / 2^8
\* on the quotient and remainder of frf by 2^8
FrfDecode(frf) ==
    LET d == Shr(FXOSC, 11)
    IN  (frf \div Shl(1, 8)) * d + ((frf % Shl(1, 8)) * d) \div Shl(1, 8)

\* C17: lora_set_frequency(f) over a working transport writes, in the
\* order MSB, MID, LSB, the bytes 23..16, 15..8 and 7..0 of
\* frf = f * 2^19 / 32000000 rounded to the nearest integer, and the three
\* bytes decode to f within one step of 32000000 / 2^19 Hz (62 Hz)
C17_FrequencyRounded ==
    (obs.op = "set_frequency" /\ obs.F = {}) =>
        LET frf == FrfRound(obs.in.frequency)
        IN  /\ Len(obs.calls) = 3
            /\ IsWrite(obs.calls[1], REG_FRF_MSB)
            /\ IsWrite(obs.calls[2], REG_FRF_MID)
            /\ IsWrite(obs.calls[3], REG_FRF_LSB)
            /\ obs.calls[1].val = Shr(frf, 16) % BYTE_MOD
            /\ obs.calls[2].val = Shr(frf, 8) % BYTE_MOD
            /\ obs.calls[3].val = frf % BYTE_MOD
            /\ FrfDecode(FrfWritten(regs)) - obs.in.frequency \in -62 .. 62

\* C17, the failing case: lora_set_frequency(100) has returned; 100 * 2^19 /
\* 32000000 = 1.6384, nearest integer 2, and REG_FRF_LSB holds 1
C17_Truncated ==
    /\ obs.op = "set_frequency"
    /\ obs.F = {}
    /\ obs.in.frequency = 100
    /\ FrfRound(obs.in.frequency) = 2
    /\ FrfWritten(regs) = 1

\* C18: lora_packet_rssi that returns LORA_OK delivers raw - offset, raw
\* being the byte REG_PKT_RSSI_VALUE holds and offset 164 when the last
\* frequency given to lora_set_frequency is below 868000000 Hz and 157
\* otherwise, neither clamped nor wrapped
C18_RssiArithmetic ==
    (obs.op = "packet_rssi" /\ obs.ret = LORA_OK) =>
        obs.out.rssi =
            obs.in.raw - (IF obs.in.frequency < 868000000 THEN 164 ELSE 157)

\* C18, the failing case: REG_PKT_RSSI_VALUE holds 100, the last frequency
\* set is 433000000 Hz, and lora_packet_rssi has delivered 192, not -64
C18_RssiWrapped ==
    /\ obs.op = "packet_rssi"
    /\ obs.ret = LORA_OK
    /\ obs.in.raw = 100
    /\ obs.in.frequency = 433000000
    /\ frequency = 433000000
    /\ obs.out.rssi = 192

\* C19: a send whose setup succeeded leaves its poll, whatever the
\* transport and the radio do: it reads REG_IRQ_FLAGS at least once and at
\* most 65535 times, delays once after every read but the last, and goes on
\* to the write of Sleep to REG_OP_MODE; when a read up to the 65535th
\* succeeds and shows TX-done, the poll ends there as a completion, the
\* lost-packet counter unchanged; when no read shows it, the poll ends
\* after the 65535th read as a timeout
C19_PollBounded ==
    SendSetupDone =>
        LET first == IF obs.in.t > obs.in.fu THEN obs.in.t ELSE obs.in.fu + 1
        IN  /\ obs.polls \in 1 .. POLL_BOUND
            /\ obs.delays = obs.polls - 1
            /\ Len(obs.calls) = 7
            /\ IsWrite(obs.calls[6], REG_OP_MODE)
            /\ obs.calls[6].val = OpSleep
            /\ first <= POLL_BOUND =>
                   /\ obs.seen
                   /\ obs.polls <= first
                   /\ send_packet_lost = obs.in.lost
            /\ ~obs.seen =>
                   /\ obs.polls = POLL_BOUND
                   /\ send_packet_lost = (obs.in.lost + 1) % BYTE_MOD

\* C19, its case: the radio raised TX-done at the 65535th read, and send
\* has returned after 65535 reads and 65534 delays without counting a lost
\* packet
C19_LastReadCompletes ==
    /\ SendSetupDone
    /\ obs.in.t = POLL_BOUND
    /\ obs.in.fu = 0
    /\ obs.polls = POLL_BOUND
    /\ obs.delays = POLL_BOUND - 1
    /\ obs.seen
    /\ send_packet_lost = obs.in.lost

\* the fields of REG_MODEM_CONFIG_1: bandwidth (bits 7:4), coding rate
\* (bits 3:1), implicit header (bit 0)
Mc1Bw(v) == v \div 16
Mc1Cr(v) == (v \div 2) % 8
Mc1Header(v) == v % 2

\* the fields of REG_MODEM_CONFIG_2: spreading factor (bits 7:4), CRC
\* enable (bit 2)
Mc2Sf(v) == v \div 16
Mc2Crc(v) == (v \div 4) % 2

\* C20: over a working transport each setter leaves in its own field the
\* value it was given and leaves the other fields of both registers as
\* they were, so that after any sequence of setters each field holds what
\* the last call that targets it put there: in REG_MODEM_CONFIG_1 bits 7:4
\* the bandwidth (0 .. 9), bits 3:1 the denominator clamped to 5 .. 8 minus
\* 4, bit 0 the header mode; in REG_MODEM_CONFIG_2 the spreading factor and
\* the CRC bit
C20_FieldsIndependent ==
    (~Idle /\ obs.F = {}) =>
        LET a == obs.in.regs[REG_MODEM_CONFIG_1]
            b == regs[REG_MODEM_CONFIG_1]
            c == obs.in.regs[REG_MODEM_CONFIG_2]
            d == regs[REG_MODEM_CONFIG_2]
        IN  /\ (obs.op = "set_bandwidth" /\ obs.in.sbw <= 9) =>
                   /\ Mc1Bw(b) = obs.in.sbw
                   /\ Mc1Cr(b) = Mc1Cr(a) /\ Mc1Header(b) = Mc1Header(a)
                   /\ d = c
            /\ obs.op = "set_coding_rate" =>
                   /\ Mc1Cr(b) = Clamp(obs.in.denominator, 5, 8) - 4
                   /\ Mc1Bw(b) = Mc1Bw(a) /\ Mc1Header(b) = Mc1Header(a)
                   /\ d = c
            /\ obs.op = "explicit_header_mode" =>
                   /\ Mc1Header(b) = 0
                   /\ Mc1Bw(b) = Mc1Bw(a) /\ Mc1Cr(b) = Mc1Cr(a)
                   /\ d = c
            /\ obs.op = "implicit_header_mode" =>
                   /\ Mc1Header(b) = 1
                   /\ Mc1Bw(b) = Mc1Bw(a) /\ Mc1Cr(b) = Mc1Cr(a)
                   /\ d = c
            /\ obs.op = "set_spreading_factor" =>
                   /\ Mc2Sf(d) = Clamp(obs.in.sf, 6, 12)
                   /\ d % 16 = c % 16
                   /\ b = a
            /\ obs.op \in {"enable_crc", "disable_crc"} =>
                   /\ Mc2Crc(d) = (IF obs.op = "enable_crc" THEN 1 ELSE 0)
                   /\ Mc2Sf(d) = Mc2Sf(c)
                   /\ BitAnd(d, 251) = BitAnd(c, 251)
                   /\ b = a

\* C20, its case: after calls that set bandwidth 9, implicit header,
\* spreading factor 12 and the CRC on a radio whose registers were clear,
\* lora_set_coding_rate(9) has returned: REG_MODEM_CONFIG_1 holds 0x99 and
\* REG_MODEM_CONFIG_2 0xC4
C20_CodingRateLast ==
    /\ obs.op = "set_coding_rate"
    /\ obs.F = {}
    /\ obs.in.denominator = 9
    /\ obs.in.regs[REG_MODEM_CONFIG_1] = 145
    /\ regs[REG_MODEM_CONFIG_1] = 153
    /\ regs[REG_MODEM_CONFIG_2] = 196

\* C21: for every 8-bit denominator d, over a working transport,
\* lora_set_coding_rate(d) returns LORA_OK and a lora_get_coding_rate made
\* next returns LORA_OK and delivers the denominator clamp(d, 5, 8)
C21_CodingRateRoundTrip ==
    (obs.op = "set_coding_rate" /\ obs.F = {}) =>
        LET get == lora_get_coding_rate(World0(regs, fifo), {}, 0)
        IN  /\ obs.ret = LORA_OK
            /\ get.ret = LORA_OK
            /\ get.val = Clamp(obs.in.denominator, 5, 8)

\* C21, the failing case: lora_set_coding_rate(7) has returned LORA_OK
\* over a working transport and lora_get_coding_rate delivers 3
C21_GetsEncoded ==
    /\ obs.op = "set_coding_rate"
    /\ obs.F = {}
    /\ obs.ret = LORA_OK
    /\ obs.in.denominator = 7
    /\ Mc1Cr(regs[REG_MODEM_CONFIG_1]) = 3
    /\ lora_get_coding_rate(World0(regs, fifo), {}, 0).val = 3

\* C22: lora_receive_packet does not return LORA_OK when the radio raised
\* the payload-CRC-error flag for the packet it received last, whatever
\* calls of lora_received and lora_receive_packet came before
C22_CrcNeverDelivered ==
    (obs.op = "receive" /\ obs.in.hist.crc) => obs.ret # LORA_OK

\* C22, the failing case: the radio raised the CRC error for its last
\* packet, lora_received has cleared that flag alone, and
\* lora_receive_packet, over a working transport, has found RX-done without
\* the CRC error, returned LORA_OK and delivered the packet
C22_CrcPacketDelivered ==
    /\ obs.op = "receive"
    /\ obs.F = {}
    /\ obs.in.hist.crc
    /\ ~obs.in.hist.delivered
    /\ FlagSet(obs.in.irq, IRQ_RX_DONE_MASK)
    /\ ~FlagSet(obs.in.irq, IRQ_PAYLOAD_CRC_ERROR_MASK)
    /\ obs.ret = LORA_OK
    /\ obs.out.return_len > 0
    /\ obs.out.buf = RxDelivered(obs.out.return_len)

\* C23: once a call of lora_receive_packet has returned LORA_OK, a further
\* call made before the radio raises RX-done again does not return LORA_OK,
\* whatever transport calls fail
C23_DeliveredOnce ==
    (obs.op = "receive" /\ obs.in.hist.delivered) => obs.ret # LORA_OK

\* C23, the failing case: the packet has been delivered by a receive whose
\* write-back of the flags failed; RX-done is still set, and a second
\* receive, over a working transport, has returned LORA_OK
C23_DeliveredTwice ==
    /\ obs.op = "receive"
    /\ obs.F = {}
    /\ obs.in.hist.delivered
    /\ ~obs.in.hist.crc
    /\ FlagSet(obs.in.regs[REG_IRQ_FLAGS], IRQ_RX_DONE_MASK)
    /\ obs.ret = LORA_OK

\* C24: while the header mode is implicit with the size n given to
\* lora_implicit_header_mode, every receive that returns LORA_OK over a
\* working transport reports the length min(n, capacity), whatever sends
\* and receives came before
C24_ImplicitLength ==
    ( /\ obs.op = "receive"
      /\ obs.F = {}
      /\ obs.ret = LORA_OK
      /\ obs.in.implicit # 0 ) =>
        obs.out.return_len = Min(obs.in.hist.size, obs.in.size)

\* C24, the failing case: the implicit size is 2, a send of 3 bytes has
\* left 3 in REG_PAYLOAD_LENGTH, and a receive with room for 3 bytes has
\* returned LORA_OK with the length 3
C24_SendChangedLength ==
    /\ obs.op = "receive"
    /\ obs.F = {}
    /\ obs.ret = LORA_OK
    /\ obs.in.implicit # 0
    /\ obs.in.hist.size = 2
    /\ obs.in.regs[REG_PAYLOAD_LENGTH] = 3
    /\ obs.in.size = 3
    /\ obs.out.return_len = 3

\* the read-modify-write setters of the configuration registers
SetterOps ==
    {"set_spreading_factor", "implicit_header_mode", "explicit_header_mode",
     "set_bandwidth", "set_coding_rate", "enable_crc", "disable_crc",
     "set_dio_mapping"}

\* the i-th transport call of the returned operation was a read that failed
FailedRead(i) == obs.calls[i].k = "read" /\ ~obs.calls[i].ok

\* C25: a read-modify-write setter whose read of a register failed has made
\* no write to that register, and the register holds the value it had before
\* the call
C25_FailedReadNoWrite ==
    obs.op \in SetterOps =>
        \A i \in DOMAIN obs.calls :
            FailedRead(i) =>
                /\ \A j \in DOMAIN obs.calls :
                       ~IsWrite(obs.calls[j], obs.calls[i].reg)
                /\ regs[obs.calls[i].reg] = obs.in.regs[obs.calls[i].reg]

\* C25, the failing case: lora_set_spreading_factor has returned after its
\* read of REG_MODEM_CONFIG_2 failed, it wrote the register all the same,
\* and the register no longer holds the value it had before the call
C25_WroteAfterFailedRead ==
    /\ obs.op = "set_spreading_factor"
    /\ \E i \in DOMAIN obs.calls :
           /\ FailedRead(i)
           /\ obs.calls[i].reg = REG_MODEM_CONFIG_2
           /\ \E j \in DOMAIN obs.calls :
                  /\ j > i
                  /\ IsWrite(obs.calls[j], REG_MODEM_CONFIG_2)
                  /\ obs.calls[j].ok
    /\ regs[REG_MODEM_CONFIG_2] # obs.in.regs[REG_MODEM_CONFIG_2]

============================================================================
